---- MODULE Spec2Model ----
(***************************************************************************)
(* Refresh-and-presentation core of the solar dashboard                    *)
(* (src/static/script.js, lines 1-776: periodic scheduler, connection      *)
(* status machine, countdown timer, fetch cycle, auto-scroll controller).  *)
(* Lines 777-1085 of that file are the script of another page (a second    *)
(* snapshot with its own fetchLiveData) and are not part of this model.    *)
(*                                                                         *)
(* Time is the value of Date.now() in milliseconds since the page script   *)
(* ran.  Timers (setInterval / setTimeout) fire at or after their due      *)
(* time, never before it; the periodic fetch timer fires before the clock  *)
(* moves on.  The timeouts of the auto-scroll controller have delays      *)
(* below the resolution of the clock and carry no reading of it: they run  *)
(* at any moment after they are set.  A fetch cycle has two suspension     *)
(* points, the await of fetch() and the await of response.json();          *)
(* everything between two suspension points runs as one atomic step        *)
(* (single-threaded event loop).                                           *)
(*                                                                         *)
(* The page is followed under several specifications over the same         *)
(* variables: the polling cycle alone (Spec), the page with the            *)
(* auto-scroll controller and the user's events (ScrollSpec), the          *)
(* controller alone (SweepSpec), the countdown tick by tick                *)
(* (CountdownSpec), the page with the content of the chart (ChartSpec),    *)
(* the page with payloads that differ in their KPI values, alerts and      *)
(* plants (SnapshotSpec) and the page with all its callbacks interleaved   *)
(* (EventSpec).  The content of the chart is held only under ChartSpec     *)
(* and SnapshotSpec; elsewhere energyChart is None and a payload's chart   *)
(* matters only through the guard of the chart block.                      *)
(***************************************************************************)
EXTENDS Integers, Sequences, FiniteSets, TLC

(* ---------------------------------------------------------------------- *)
(* Program constants                                                      *)
(* ---------------------------------------------------------------------- *)
UPDATE_INTERVAL_MS == 5 * 60 * 1000

COUNTDOWN_TICK_MS == 1000

CRITICAL_MS == 30000

WARNING_MS == 60000

RESTART_DELAY_MS == 500

START_DELAY_MS == 100

\* Scroll offsets are counted in half pixels, the distance of one frame.
Px(n) == 2 * n

scrollSpeed == 1

threshold == Px(2)

EDGE_NUDGE == Px(10)

(* ---------------------------------------------------------------------- *)
(* Bounds of the model                                                    *)
(* ---------------------------------------------------------------------- *)
\* the clock is followed for MaxSteps half intervals
MaxSteps == 4

\* nominal amounts by which the clock advances between events
Steps == {UPDATE_INTERVAL_MS \div 2}

MaxTime == MaxSteps * (UPDATE_INTERVAL_MS \div 2)

\* scrollHeight - clientHeight, in pixels, of the table wrapper when every
\* plant of a payload is shown
FullTableOverflowPx == 13

\* the most edge-pause timeouts and the most quiet-period timeouts followed
\* at a time
MaxPauseTimers == 1

MaxQuietTimers == 1

\* the most animation frames followed at a time
MaxFrames == 2

\* the largest overflow, in pixels, of the tables left to scroll on their own
MaxOverflowPx == 16

\* the last seconds of a countdown in which every tick is followed
MaxFineTicks == 3

\* the number of points of a series that covers the first part of a day
ShortSeries == 2

\* with the controller and a user, the clock is followed over the first
\* half of the modelled time
ScrollMaxTime == MaxTime \div 2

(* ---------------------------------------------------------------------- *)
(* Optional values (JavaScript null)                                      *)
(* ---------------------------------------------------------------------- *)
None == << >>

Some(x) == << x >>

VARIABLES
  started,                  \* the startup statements (lines 475-482) have run
  now,                      \* Date.now()
  connectionStatus,         \* 'unknown' | 'connected' | 'disconnected'
  failedFetchCount,
  lastSuccessfulConnection, \* None or Some(time)
  nextUpdateTime,           \* None or Some(time)
  countdownInterval,        \* None or Some(handle of the live 1 s interval)
  countdownTimers,          \* live 1 s interval timers: [id, due]
  nextHandle,               \* next timer handle the browser hands out
  countdownText,            \* text of #next-update-countdown
  countdownClass,           \* severity classes in the classList of
                            \* #next-update-countdown
  indicatorUpdating,        \* #update-indicator carries class 'updating'
  pollDue,                  \* due time of setInterval(fetchLiveData, ...)
  inflight,                 \* suspended fetchLiveData calls: [id, stage]
  display,                  \* which cycle wrote each widget last, and the
                            \* last cycle whose snapshot was rendered whole
  energyChart,              \* energyChart.data: [labels, datasets], or None
                            \* where the content of the chart is not followed
  chartInput,               \* history: None or Some(data.chart) of the last
                            \* successful cycle, where the chart is followed
  dataInput,                \* history: None or Some(data) of that cycle
  firstLoad,
  isScrolling,
  scrollPaused,
  scrollDirection,          \* 1 (down) or -1 (up)
  scrollAnimationFrame,     \* None or Some(state of the frame whose handle
                            \* it holds): "pending" or "ran"
  frames,                   \* number of pending animation frames
  pauseTimers,              \* number of pending edge-pause timeouts, by the
                            \* wasAtBottom of their closures
  scrollTop,                \* tableWrapper.scrollTop, in half pixels
  maxScroll,                \* scrollHeight - clientHeight, in half pixels
  tableOverflow,            \* layout: maxScroll of a table with all its rows
  restartTimers,            \* pending setTimeout(..., 500) of finished cycles
  startTimers,              \* pending setTimeout(startAutoScroll, 100)
  hovering,                 \* the pointer is over the table wrapper
  scrollTimeout,            \* None or Some(state of the quiet timeout whose
                            \* handle it holds): "pending" or "ran"
  quietTimers,              \* number of pending quiet-period timeouts
  fetchesStarted,           \* history: number of fetchLiveData calls
  timerFirings,             \* history: firings of the periodic timer
  cyclesCompleted,          \* history: number of finished fetchLiveData calls
  lastOutcome,              \* history: how the last finished cycle ended
  failStreak,               \* history: failed cycles since the last success
  prevStreak                \* history: failStreak before the last finished cycle

connVars == << connectionStatus, failedFetchCount, lastSuccessfulConnection >>

countdownVars == << nextUpdateTime, countdownInterval, countdownTimers,
                    nextHandle, countdownText, countdownClass >>

ctlVars == << isScrolling, scrollPaused, scrollDirection,
             scrollAnimationFrame, frames, pauseTimers, scrollTop,
             maxScroll >>

restartVars == << restartTimers, startTimers >>

userVars == << hovering, scrollTimeout, quietTimers >>

scrollVars == << ctlVars, tableOverflow, restartVars, userVars >>

historyVars == << fetchesStarted, timerFirings, cyclesCompleted, lastOutcome,
                  failStreak, prevStreak >>

chartVars == << energyChart, chartInput, dataInput >>

\* everything but the auto-scroll controller and its timers
pageVars == << started, now, connVars, countdownVars, indicatorUpdating,
               pollDue, inflight, display, chartVars, firstLoad, historyVars >>

vars == << started, now, connVars, countdownVars, indicatorUpdating, pollDue,
           inflight, display, chartVars, firstLoad, scrollVars, historyVars >>

(* ---------------------------------------------------------------------- *)
(* Connection Status Machine                                              *)
(* ---------------------------------------------------------------------- *)
\* the three connection variables as one value
Conn == [connectionStatus |-> connectionStatus,
         failedFetchCount |-> failedFetchCount,
         lastSuccessfulConnection |-> lastSuccessfulConnection]

\* the page carries #update-widget, #connection-indicator, #connection-text
HasConnectionWidget == TRUE

\* updateConnectionStatus as it would be without `failedFetchCount = 0`
UpdateConnectionStatusNoReset(c, success, t) ==
  IF ~HasConnectionWidget THEN c
  ELSE IF success
    THEN [c EXCEPT !.connectionStatus = "connected",
                   !.lastSuccessfulConnection = Some(t)]
    ELSE [c EXCEPT !.connectionStatus = "disconnected",
                   !.failedFetchCount = c.failedFetchCount + 1]

\* updateConnectionStatus as it would be without
\* `lastSuccessfulConnection = new Date()`
UpdateConnectionStatusNoStamp(c, success, t) ==
  IF ~HasConnectionWidget THEN c
  ELSE IF success
    THEN [c EXCEPT !.connectionStatus = "connected",
                   !.failedFetchCount = 0]
    ELSE [c EXCEPT !.connectionStatus = "disconnected",
                   !.failedFetchCount = c.failedFetchCount + 1]

\* updateConnectionStatus(success) run at time t on connection value c
UpdateConnectionStatus(c, success, t) ==
  IF ~HasConnectionWidget THEN c
  ELSE IF success
    THEN [connectionStatus |-> "connected",
          failedFetchCount |-> 0,
          lastSuccessfulConnection |-> Some(t)]
    ELSE [c EXCEPT !.connectionStatus = "disconnected",
                   !.failedFetchCount = c.failedFetchCount + 1]

SetConn(c) ==
  /\ connectionStatus' = c.connectionStatus
  /\ failedFetchCount' = c.failedFetchCount
  /\ lastSuccessfulConnection' = c.lastSuccessfulConnection

(* ---------------------------------------------------------------------- *)
(* Countdown Timer                                                        *)
(* ---------------------------------------------------------------------- *)
Cd == [nextUpdateTime |-> nextUpdateTime,
       countdownInterval |-> countdownInterval,
       countdownTimers |-> countdownTimers,
       nextHandle |-> nextHandle,
       countdownText |-> countdownText,
       countdownClass |-> countdownClass]

SetCd(c) ==
  /\ nextUpdateTime' = c.nextUpdateTime
  /\ countdownInterval' = c.countdownInterval
  /\ countdownTimers' = c.countdownTimers
  /\ nextHandle' = c.nextHandle
  /\ countdownText' = c.countdownText
  /\ countdownClass' = c.countdownClass

Max(a, b) == IF a >= b THEN a ELSE b

\* the formatted time as it would be without the seconds
FormatCountdownMinutesOnly(remaining) ==
  LET seconds == remaining \div 1000
  IN  << "Proxima", seconds \div 60, 0 >>

\* `${minutes}:${String(secs).padStart(2, '0')}` as the pair it prints
FormatCountdown(remaining) ==
  LET seconds == remaining \div 1000
  IN  << "Proxima", seconds \div 60, seconds % 60 >>

\* the two severity classes
SeverityClasses == {"warning", "critical"}

\* the class the countdown adds, as it would be with <= for <
SeverityClassInclusive(remaining) ==
  IF remaining <= CRITICAL_MS THEN {"critical"}
  ELSE IF remaining <= WARNING_MS THEN {"warning"}
  ELSE {}

\* the class updateCountdown() adds for a remaining time
SeverityClass(remaining) ==
  IF remaining < CRITICAL_MS THEN {"critical"}
  ELSE IF remaining < WARNING_MS THEN {"warning"}
  ELSE {}

RECURSIVE StartCountdown(_, _), UpdateCountdown(_, _)

\* startCountdown() as it would be without clearInterval(countdownInterval)
StartCountdownNoClear(c, t) ==
  [c EXCEPT !.nextUpdateTime = Some(t + UPDATE_INTERVAL_MS),
            !.countdownText = FormatCountdown(UPDATE_INTERVAL_MS),
            !.countdownClass = (@ \ SeverityClasses) \cup
                                 SeverityClass(UPDATE_INTERVAL_MS),
            !.countdownInterval = Some(c.nextHandle),
            !.countdownTimers = c.countdownTimers \cup
               {[id |-> c.nextHandle, due |-> t + COUNTDOWN_TICK_MS]},
            !.nextHandle = c.nextHandle + 1]

\* startCountdown() run at time t
StartCountdown(c, t) ==
  LET cleared == IF c.countdownInterval # None
                 THEN {tm \in c.countdownTimers :
                         tm.id # c.countdownInterval[1]}
                 ELSE c.countdownTimers
      c1 == [c EXCEPT !.countdownTimers = cleared,
                      !.nextUpdateTime = Some(t + UPDATE_INTERVAL_MS)]
      c2 == UpdateCountdown(c1, t)
  IN  [c2 EXCEPT !.countdownInterval = Some(c2.nextHandle),
                 !.countdownTimers = c2.countdownTimers \cup
                    {[id |-> c2.nextHandle, due |-> t + COUNTDOWN_TICK_MS]},
                 !.nextHandle = c2.nextHandle + 1]

\* updateCountdown() as it would be without the restart at zero
UpdateCountdownNoRestart(c, t) ==
  IF c.nextUpdateTime = None THEN c
  ELSE
    LET remaining == Max(0, c.nextUpdateTime[1] - t)
    IN  [c EXCEPT !.countdownText = FormatCountdown(remaining),
                  !.countdownClass = (@ \ SeverityClasses) \cup
                                       SeverityClass(remaining)]

\* updateCountdown() run at time t
UpdateCountdown(c, t) ==
  IF c.nextUpdateTime = None THEN c
  ELSE
    LET remaining == Max(0, c.nextUpdateTime[1] - t)
        c1 == [c EXCEPT !.countdownText = FormatCountdown(remaining),
                        !.countdownClass = (@ \ SeverityClasses) \cup
                                             SeverityClass(remaining)]
    IN  IF remaining <= 0 THEN StartCountdown(c1, t) ELSE c1

\* showUpdatingIndicator(): the part that writes the countdown element
ShowUpdatingText(c) ==
  [c EXCEPT !.countdownText = << "Atualizando" >>,
            !.countdownClass = @ \ SeverityClasses]


(* ---------------------------------------------------------------------- *)
(* Auto-scroll controller                                                 *)
(* The controller's variables and the geometry of the table wrapper are   *)
(* collected in one record so that the handlers compose.  The browser     *)
(* keeps an assigned scrollTop within 0..maxScroll and stores it exactly.  *)
(* ---------------------------------------------------------------------- *)
Ctl ==
  [isScrolling |-> isScrolling, scrollPaused |-> scrollPaused,
   scrollDirection |-> scrollDirection,
   scrollAnimationFrame |-> scrollAnimationFrame, frames |-> frames,
   pauseTimers |-> pauseTimers, scrollTop |-> scrollTop,
   maxScroll |-> maxScroll]

SetCtl(c) ==
  /\ isScrolling' = c.isScrolling
  /\ scrollPaused' = c.scrollPaused
  /\ scrollDirection' = c.scrollDirection
  /\ scrollAnimationFrame' = c.scrollAnimationFrame
  /\ frames' = c.frames
  /\ pauseTimers' = c.pauseTimers
  /\ scrollTop' = c.scrollTop
  /\ maxScroll' = c.maxScroll

Min(a, b) == IF a <= b THEN a ELSE b

\* the page contains the .table-wrapper element
HasTableWrapper == TRUE

\* what the browser does with `tableWrapper.scrollTop = x`
AssignScrollTop(c, x) == [c EXCEPT !.scrollTop = Max(0, Min(x, c.maxScroll))]

\* scrollAnimationFrame = requestAnimationFrame(autoScrollTable): a frame
\* whose handle was held before stays pending
RequestFrame(c) ==
  [c EXCEPT !.frames = @ + 1, !.scrollAnimationFrame = Some("pending")]

\* if (scrollAnimationFrame) { cancelAnimationFrame(...); ... = null; }
\* cancelling the handle of a frame that has run does nothing
CancelFrame(c) ==
  IF c.scrollAnimationFrame = None THEN c
  ELSE [c EXCEPT !.frames = IF c.scrollAnimationFrame = Some("pending")
                              THEN @ - 1 ELSE @,
                 !.scrollAnimationFrame = None]

\* stopAutoScroll()
StopAutoScroll(c) == CancelFrame([c EXCEPT !.isScrolling = FALSE])

\* startAutoScroll()
StartAutoScrollUnchecked(c) ==
  RequestFrame([CancelFrame(c) EXCEPT !.isScrolling = TRUE,
                                      !.scrollPaused = FALSE,
                                      !.scrollDirection = 1])

StartAutoScroll(c) ==
  IF ~HasTableWrapper THEN c
  ELSE
    LET c1 == CancelFrame(c)
    IN  IF c1.maxScroll <= 0 THEN [c1 EXCEPT !.isScrolling = FALSE]
        ELSE RequestFrame([c1 EXCEPT !.isScrolling = TRUE,
                                     !.scrollPaused = FALSE,
                                     !.scrollDirection = 1])

\* setTimeout(..., scrollPause) of an edge pause
SetPauseTimer(c, wasAtBottom) ==
  [c EXCEPT !.pauseTimers[wasAtBottom] = @ + 1]

\* autoScrollTable(): the body of a frame callback
AutoScrollTable(c) ==
  IF ~HasTableWrapper \/ ~c.isScrolling \/ c.scrollPaused \/ c.maxScroll <= 0
  THEN c
  ELSE
    LET isAtTop == c.scrollTop <= threshold
        isAtBottom == c.scrollTop >= c.maxScroll - threshold
    IN  IF isAtTop \/ isAtBottom
        THEN SetPauseTimer(
               CancelFrame(
                 AssignScrollTop([c EXCEPT !.scrollPaused = TRUE],
                                 IF isAtTop THEN 0 ELSE c.maxScroll)),
               isAtBottom)
        ELSE RequestFrame(
               AssignScrollTop(c, c.scrollTop +
                                  scrollSpeed * c.scrollDirection))

\* the callback of an edge-pause timeout as it would be without
\* `scrollDirection *= -1`
PauseTimeoutNoFlip(c, wasAtBottom) ==
  LET c1 == [c EXCEPT !.scrollPaused = FALSE]
      c2 == IF wasAtBottom /\ c1.scrollDirection < 0
              THEN AssignScrollTop(c1, Max(0, c1.maxScroll - EDGE_NUDGE))
            ELSE IF ~wasAtBottom /\ c1.scrollDirection > 0
              THEN AssignScrollTop(c1, Min(c1.maxScroll, EDGE_NUDGE))
            ELSE c1
  IN  IF c2.isScrolling THEN RequestFrame(c2) ELSE c2

\* the callback of an edge-pause timeout set with wasAtBottom
PauseTimeout(c, wasAtBottom) ==
  LET c1 == [c EXCEPT !.scrollDirection = -1 * @, !.scrollPaused = FALSE]
      c2 == IF wasAtBottom /\ c1.scrollDirection < 0
              THEN AssignScrollTop(c1, Max(0, c1.maxScroll - EDGE_NUDGE))
            ELSE IF ~wasAtBottom /\ c1.scrollDirection > 0
              THEN AssignScrollTop(c1, Min(c1.maxScroll, EDGE_NUDGE))
            ELSE c1
  IN  IF c2.isScrolling THEN RequestFrame(c2) ELSE c2

\* the table body is emptied and filled again: the layout gives the new
\* maxScroll and the browser keeps scrollTop within it
Layout(rows) == IF rows = "full" THEN tableOverflow ELSE 0

RepaintTable(c, rows) ==
  [c EXCEPT !.maxScroll = Layout(rows),
            !.scrollTop = Min(@, Layout(rows))]

(* ---------------------------------------------------------------------- *)
(* Time-series alignment (the chart block of fetchLiveData)               *)
(* A JavaScript value is a record of its type and, for an array, its      *)
(* items.  An item of a series is Some(number) or None (null).  A label   *)
(* 'hh:mm' is the sequence of its four digits.                            *)
(* ---------------------------------------------------------------------- *)
Undefined == [type |-> "undefined", items |-> << >>]

Null == [type |-> "null", items |-> << >>]

\* a value that is neither falsy nor an array
PlainObject == [type |-> "object", items |-> << >>]

Array(items) == [type |-> "array", items |-> items]

Truthy(v) == v.type \notin {"undefined", "null"}

IsArray(v) == v.type = "array"

\* n.toString().padStart(2, '0')
PadStart2(n) == IF n < 10 THEN << 0, n >> ELSE << n \div 10, n % 10 >>

RECURSIVE MinuteLoop(_, _), HourLoop(_)

\* for (let m = ...; m < 60; m += 5) { ... labels.push(`${hh}:${mm}`) }: the
\* labels pushed from minute m on
MinuteLoop(h, m) ==
  IF m < 60
  THEN << PadStart2(h) \o PadStart2(m) >> \o MinuteLoop(h, m + 5)
  ELSE << >>

\* for (let h = ...; h < 24; h++) { ... }: the labels pushed from hour h on
HourLoop(h) ==
  IF h < 24 THEN MinuteLoop(h, 0) \o HourLoop(h + 1) ELSE << >>

\* generateFullDayXAxis() as it would be without labels.push("24:00")
GenerateFullDayXAxisNoEnd == HourLoop(0)

\* generateFullDayXAxis()
GenerateFullDayXAxis == Append(HourLoop(0), << 2, 4, 0, 0 >>)

\* energyChart.data as the chart is constructed (lines 5-13)
InitialChart ==
  [labels |-> GenerateFullDayXAxis,
   datasets |-> << << >>, << >>, << >>, << >> >>]

\* the guard of the chart block as it would be if it looked at production
\* only
ChartGuardProductionOnly(chart) ==
  /\ Truthy(chart)
  /\ Truthy(chart.production)
  /\ IsArray(chart.production)

\* the guard of the chart block
ChartGuard(chart) ==
  /\ Truthy(chart)
  /\ Truthy(chart.production)
  /\ Truthy(chart.consumption)
  /\ Truthy(chart.self_consumption)
  /\ Truthy(chart.surplus)
  /\ IsArray(chart.production)
  /\ IsArray(chart.consumption)
  /\ IsArray(chart.self_consumption)
  /\ IsArray(chart.surplus)

\* data.chart.x_axis ? data.chart.x_axis.length : 0
CurrentLength(chart) ==
  IF Truthy(chart.x_axis) THEN Len(chart.x_axis.items) ELSE 0

\* array.slice(0, end) for end >= 0
Slice(items, end) == SubSeq(items, 1, Min(end, Len(items)))

\* n items pushed one after the other, each of them item
Pushed(item, n) == [i \in 1..n |-> item]

\* the padding loop as it would be if it pushed 0
PadLoopZeros(production, consumption, selfConsumption, surplus, length) ==
  LET runs == Max(0, length - Len(production))
  IN  << production \o Pushed(Some(0), runs),
         consumption \o Pushed(Some(0), runs),
         selfConsumption \o Pushed(Some(0), runs),
         surplus \o Pushed(Some(0), runs) >>

\* the padding loop as it would be if it tested its condition after the body
PadLoopDoWhile(production, consumption, selfConsumption, surplus, length) ==
  LET runs == Max(1, length - Len(production))
  IN  << production \o Pushed(None, runs), consumption \o Pushed(None, runs),
         selfConsumption \o Pushed(None, runs),
         surplus \o Pushed(None, runs) >>

\* while (paddedProduction.length < fullLabels.length) { four push(null) }:
\* the body runs as many times as production is short of length, and each
\* run pushes one null to each of the four series
PadLoop(production, consumption, selfConsumption, surplus, length) ==
  LET runs == Max(0, length - Len(production))
  IN  << production \o Pushed(None, runs), consumption \o Pushed(None, runs),
         selfConsumption \o Pushed(None, runs),
         surplus \o Pushed(None, runs) >>

\* the body of the chart block: the new energyChart.data
AlignChart(chart) ==
  LET fullLabels == GenerateFullDayXAxis
      currentLength == CurrentLength(chart)
  IN  [labels |-> fullLabels,
       datasets |-> PadLoop(Slice(chart.production.items, currentLength),
                            Slice(chart.consumption.items, currentLength),
                            Slice(chart.self_consumption.items, currentLength),
                            Slice(chart.surplus.items, currentLength),
                            Len(fullLabels))]

\* the chart block run on energyChart.data
UpdateChart(chartData, chart) ==
  IF ChartGuard(chart) THEN AlignChart(chart) ELSE chartData

\* a payload's chart object
Chart(xAxis, production, consumption, selfConsumption, surplus) ==
  [type |-> "object", x_axis |-> xAxis, production |-> production,
   consumption |-> consumption, self_consumption |-> selfConsumption,
   surplus |-> surplus]

\* a payload without `chart`
NoChart ==
  [type |-> "undefined", x_axis |-> Undefined, production |-> Undefined,
   consumption |-> Undefined, self_consumption |-> Undefined,
   surplus |-> Undefined]

\* the first k labels of a day, as the backend sends them
DayLabels(k) == [i \in 1..k |-> PadStart2(((i - 1) * 5) \div 60) \o
                                PadStart2(((i - 1) * 5) % 60)]

\* n readings of the series numbered s; some of them are 0
Readings(s, n) == [i \in 1..n |-> Some((s * i) % 5)]

\* a chart with k labels and four series of n readings each
PlainChart(k, n) ==
  Chart(Array(DayLabels(k)), Array(Readings(1, n)), Array(Readings(2, n)),
        Array(Readings(3, n)), Array(Readings(4, n)))

\* the chart of the payloads whose chart content is not looked at
SampleChart == PlainChart(ShortSeries, ShortSeries)

(* ---------------------------------------------------------------------- *)
(* Snapshot rendering (grid KPI and table rows of fetchLiveData)          *)
(* A number is held in hundredths; NaN is the number without a value.  A  *)
(* string is held as the number it spells, if it spells one.              *)
(* ---------------------------------------------------------------------- *)
Num(n) == [type |-> "number", items |-> << n >>]

NaN == [type |-> "number", items |-> << >>]

\* a string that spells the number n, as '5.20'
NumericString(n) == [type |-> "string", items |-> << n >>]

\* a non-empty string that spells no number, as 'n/a'
OtherString == [type |-> "string", items |-> << >>]

Abs(n) == IF n < 0 THEN -n ELSE n

\* Number(v), for v a number, a string, null, undefined or a plain object
Number(v) ==
  CASE v.type = "number" -> v
    [] v.type = "string" ->
         IF v.items = << >> THEN NaN ELSE Num(v.items[1])
    [] v.type = "null" -> Num(0)
    [] v.type = "undefined" -> NaN
    [] v.type = "object" -> NaN

\* Number(v) || 0, as hundredths: NaN and 0 are falsy
NumberOrZero(v) ==
  LET n == Number(v)
  IN  IF n = NaN \/ n = Num(0) THEN 0 ELSE n.items[1]

\* n.toFixed(2) of the number of n hundredths: sign, integer part and the
\* two decimals
ToFixed2(n) ==
  [negative |-> n < 0, whole |-> Abs(n) \div 100, cents |-> Abs(n) % 100]

\* the grid card as it would be without Math.abs
GridKpiNoAbs(data) ==
  LET production == NumberOrZero(data.production)
      consumption == NumberOrZero(data.consumption)
      gridValNum == production - consumption
  IN  IF gridValNum >= 0
      THEN [label |-> "A Injetar na Rede", value |-> ToFixed2(gridValNum)]
      ELSE [label |-> "A Consumir da Rede", value |-> ToFixed2(gridValNum)]

\* label and value of #grid as the page is loaded
InitialGrid == [label |-> "as loaded", value |-> ToFixed2(0)]

\* label and value of #grid as lines 218-241 leave them
GridKpi(data) ==
  LET production == NumberOrZero(data.production)
      consumption == NumberOrZero(data.consumption)
      gridValNum == production - consumption
  IN  IF gridValNum >= 0
      THEN [label |-> "A Injetar na Rede", value |-> ToFixed2(gridValNum)]
      ELSE [label |-> "A Consumir da Rede",
            value |-> ToFixed2(Abs(gridValNum))]

\* the text of a table cell: '--', a number with two decimals, or 'NaN'
Placeholder == [text |-> "--"]

NumberText(n) == [text |-> "number", fixed |-> ToFixed2(n)]

NaNText == [text |-> "NaN"]

\* a plant of data.statuses
Plant(statusIcon, pinstalled, production, grid, consumption, surplus) ==
  [status_icon |-> statusIcon, pinstalled |-> pinstalled,
   production |-> production, grid |-> grid, consumption |-> consumption,
   surplus |-> surplus]

\* plant.status_icon === "🔴"
IsCritical(plant) == plant.status_icon = "critical"

\* value.toFixed(2) throws a TypeError: value is undefined or null, or has
\* no method toFixed
ToFixedThrows(value) == value.type # "number"

\* value.toFixed(2) of a number
ToFixedText(value) ==
  IF value = NaN THEN NaNText ELSE NumberText(value.items[1])

\* Math.max(0, plant.grid)
GridConsumption(plant) ==
  LET n == Number(plant.grid)
  IN  IF n = NaN THEN NaN ELSE Num(Max(0, n.items[1]))

\* formatValue(value, className, showZero) of a number
FormatValue(value, showZero) ==
  IF value = Num(0) /\ ~showZero THEN Placeholder
  ELSE ToFixedText(value)

\* plant.pinstalled ? plant.pinstalled.toFixed(2) : "--"
FalsyValue(v) ==
  \/ v.type \in {"undefined", "null"}
  \/ v = NaN
  \/ v = Num(0)

\* building the row of a plant throws
RowThrows(plant) ==
  /\ ~IsCritical(plant)
  /\ \/ ~FalsyValue(plant.pinstalled) /\ ToFixedThrows(plant.pinstalled)
     \/ ToFixedThrows(plant.production)
     \/ ToFixedThrows(plant.consumption)
     \/ ToFixedThrows(plant.surplus)

\* the five numeric cells of a critical plant as they would be if they
\* showed zeros
CriticalCellsZeros(plant) ==
  << NumberText(0), NumberText(0), NumberText(0), NumberText(0),
     NumberText(0) >>

\* the five numeric cells of a critical plant (lines 335-344)
CriticalCells(plant) ==
  << Placeholder, Placeholder, Placeholder, Placeholder, Placeholder >>

\* the five numeric cells of the row of a plant whose row can be built
RowCells(plant) ==
  IF IsCritical(plant) THEN CriticalCells(plant)
  ELSE << IF FalsyValue(plant.pinstalled) THEN Placeholder
          ELSE ToFixedText(plant.pinstalled),
          FormatValue(plant.production, TRUE),
          FormatValue(GridConsumption(plant), FALSE),
          FormatValue(plant.consumption, TRUE),
          FormatValue(plant.surplus, FALSE) >>

RECURSIVE ForEachPlant(_)

\* data.statuses.forEach(plant => { ... tableBody.appendChild(row) }): the
\* rows appended, up to the first plant whose row throws
ForEachPlant(plants) ==
  IF plants = << >> \/ RowThrows(Head(plants)) THEN << >>
  ELSE << RowCells(Head(plants)) >> \o ForEachPlant(Tail(plants))

\* the rows of #buildingTable after the table code (lines 297-359)
TableRows(statuses) ==
  IF IsArray(statuses) THEN ForEachPlant(statuses.items) ELSE << >>

\* how the table code ends on data.statuses
StatusesKind(statuses) ==
  CASE ~IsArray(statuses) -> "missing"
    [] IsArray(statuses) /\ \E i \in 1..Len(statuses.items) :
                              RowThrows(statuses.items[i]) -> "badrow"
    [] OTHER -> IF statuses.items = << >> THEN "empty" ELSE "rows"

(* ---------------------------------------------------------------------- *)
(* Fetch cycle (fetchLiveData)                                            *)
(* ---------------------------------------------------------------------- *)
\* a response body sent with a 2xx status
\*   error    : the payload carries a truthy `error` field
\*   production, consumption, alerts : the fields of these names
\*   plants   : the field `statuses`
\*   statuses : how the table code ends on `statuses`
\*              "rows"    well-formed, at least one plant
\*              "empty"   well-formed, no plant
\*              "missing" no `statuses` field
\*              "badrow"  a non-critical plant with a non-numeric production
\*   chart    : the chart object, or NoChart
Payload(error, production, consumption, alerts, statuses, chart) ==
  [error |-> error, production |-> production, consumption |-> consumption,
   alerts |-> alerts, plants |-> statuses,
   statuses |-> StatusesKind(statuses), chart |-> chart]

\* a plant in order, and one whose production is missing
SamplePlant == Plant("ok", Num(1000), Num(150), Num(-50), Num(100), Num(50))

BadPlant == [SamplePlant EXCEPT !.production = Undefined]

\* one value of data.statuses of each kind
SampleStatuses ==
  {Array(<< SamplePlant >>), Array(<< >>), Undefined, Array(<< BadPlant >>)}

SampleAlerts == Array(<< >>)

\* a payload in order
SamplePayload ==
  Payload(FALSE, Num(520), Num(310), SampleAlerts, Array(<< SamplePlant >>),
          SampleChart)

\* response bodies the endpoint can send with a 2xx status
Payloads ==
  {Payload(TRUE, Undefined, Undefined, Undefined, Array(<< >>), NoChart)} \cup
  {Payload(FALSE, Num(520), Num(310), SampleAlerts, statuses, chart) :
     statuses \in SampleStatuses, chart \in {NoChart, SampleChart}}

\* data.alerts.forEach(...) throws a TypeError: alerts is a non-empty string
AlertsThrow(data) == data.alerts.type = "string"

\* data.statuses.forEach(...) throws a TypeError on these payloads
TableThrows(data) == data.statuses \in {"missing", "badrow"}

\* the rendering of the payload throws before the chart block
RenderThrows(data) == AlertsThrow(data) \/ TableThrows(data)

\* fetchLiveData(): the call up to `await fetch(...)`, as seen in the set of
\* suspended calls
BeginFetchGuarded(fl, id) ==
  IF fl = {} THEN fl \cup {[id |-> id, stage |-> "fetch"]} ELSE fl

BeginFetch(fl, id) == fl \cup {[id |-> id, stage |-> "fetch"]}

\* the call f returns (normally, by `return`, or from the catch block);
\* n is the id a further call would get
EndCycleRetry(fl, f, n) == (fl \ {f}) \cup {[id |-> n, stage |-> "fetch"]}

EndCycle(fl, f, n) == fl \ {f}

\* the `if (data.error)` branch
OnApiErrorSilent(c, t) == c

OnApiError(c, t) == UpdateConnectionStatus(c, FALSE, t)

\* the table code run by cycle id
RenderTable(d, id, data) ==
  [d EXCEPT !.table = id,
            !.rows = CASE data.statuses = "rows" -> "full"
                       [] data.statuses = "badrow" -> "partial"
                       [] OTHER -> "none",
            !.tableRows = TableRows(data.plants)]

\* the rendering as it would be with the table code before the alerts
RenderWidgetsTableFirst(d, id, data) ==
  LET kpi == [d EXCEPT !.kpi = id, !.grid = GridKpi(data)]
      table == RenderTable(kpi, id, data)
  IN  IF TableThrows(data) THEN table ELSE [table EXCEPT !.alerts = id]

\* KPI cards, alert list and table rows as cycle id leaves them: the
\* alerts code throws before the table code is reached
RenderWidgets(d, id, data) ==
  LET kpi == [d EXCEPT !.kpi = id, !.grid = GridKpi(data)]
      alerts == [kpi EXCEPT !.alerts = id]
  IN  IF AlertsThrow(data) THEN alerts ELSE RenderTable(alerts, id, data)

\* the chart block: guarded by the four arrays
RenderChart(d, id, data) ==
  IF ChartGuard(data.chart) THEN [d EXCEPT !.chart = id] ELSE d

\* history bookkeeping of a finished cycle
Complete(f, kind) ==
  /\ inflight' = EndCycle(inflight, f, fetchesStarted + 1)
  /\ cyclesCompleted' = cyclesCompleted + 1
  /\ lastOutcome' = kind
  /\ failStreak' = (IF kind = "success" THEN 0 ELSE failStreak + 1)
  /\ prevStreak' = failStreak
  /\ UNCHANGED << fetchesStarted, timerFirings >>

\* the catch block run after connection value c
Catch(f, c, kind) ==
  /\ SetConn(UpdateConnectionStatus(c, FALSE, now))
  /\ indicatorUpdating' = FALSE
  /\ nextUpdateTime' = Some(now + UPDATE_INTERVAL_MS)
  /\ UNCHANGED << countdownInterval, countdownTimers, nextHandle,
                  countdownText, countdownClass >>
  /\ Complete(f, kind)

\* setInterval re-arms the periodic timer after a firing at time t
RearmOneShot(t) == None

Rearm(t) == Some(t + UPDATE_INTERVAL_MS)

(* ---------------------------------------------------------------------- *)
(* Actions                                                                *)
(* ---------------------------------------------------------------------- *)
InitPage ==
  /\ started = FALSE
  /\ now = 0
  /\ connectionStatus = "unknown"
  /\ failedFetchCount = 0
  /\ lastSuccessfulConnection = None
  /\ nextUpdateTime = None
  /\ countdownInterval = None
  /\ countdownTimers = {}
  /\ nextHandle = 1
  /\ countdownText = << "initial" >>
  /\ countdownClass = {}
  /\ indicatorUpdating = FALSE
  /\ pollDue = None
  /\ inflight = {}
  /\ display = [kpi |-> 0, alerts |-> 0, table |-> 0, chart |-> 0,
                rows |-> "initial", snapshot |-> 0,
                grid |-> InitialGrid, tableRows |-> << >>]
  /\ firstLoad = TRUE
  /\ isScrolling = FALSE
  /\ scrollPaused = FALSE
  /\ scrollDirection = 1
  /\ scrollAnimationFrame = None
  /\ frames = 0
  /\ pauseTimers = [wasAtBottom \in BOOLEAN |-> 0]
  /\ scrollTop = 0
  /\ maxScroll = 0
  /\ restartTimers = {}
  /\ startTimers = {}
  /\ hovering = FALSE
  /\ scrollTimeout = None
  /\ quietTimers = 0
  /\ fetchesStarted = 0
  /\ timerFirings = 0
  /\ cyclesCompleted = 0
  /\ lastOutcome = "none"
  /\ failStreak = 0
  /\ prevStreak = 0

\* the content of the chart is not followed
ChartNotFollowed ==
  /\ energyChart = None
  /\ chartInput = None
  /\ dataInput = None

\* the page as loaded, in a viewport where the full table overflows
Init ==
  /\ InitPage
  /\ ChartNotFollowed
  /\ tableOverflow = Px(FullTableOverflowPx)

\* fetchLiveData(); startCountdown(); setInterval(fetchLiveData, ...)
Startup ==
  /\ ~started
  /\ started' = TRUE
  /\ SetCtl(StopAutoScroll(Ctl))
  /\ indicatorUpdating' = TRUE
  /\ inflight' = BeginFetch(inflight, fetchesStarted + 1)
  /\ fetchesStarted' = fetchesStarted + 1
  /\ SetCd(StartCountdown(ShowUpdatingText(Cd), now))
  /\ pollDue' = Some(now + UPDATE_INTERVAL_MS)
  /\ UNCHANGED << now, connVars, display, chartVars, firstLoad, tableOverflow,
                  restartVars, userVars, timerFirings, cyclesCompleted, lastOutcome, failStreak,
                  prevStreak >>

\* the clock advances, by a nominal step or up to the periodic timer's due
\* time, and not past it: the periodic timer is late by less than the clock's
\* resolution
TimeSteps ==
  {d \in Steps \cup (IF pollDue = None THEN {} ELSE {pollDue[1] - now}) :
     /\ d > 0
     /\ now + d <= MaxTime
     /\ pollDue # None => now + d <= pollDue[1]}

AdvanceTime ==
  /\ started
  /\ \E d \in TimeSteps : now' = now + d
  /\ UNCHANGED << started, connVars, countdownVars, indicatorUpdating, pollDue,
                  inflight, display, chartVars, firstLoad, scrollVars, historyVars >>

\* the periodic timer fires: fetchLiveData() up to its first await
PollTimerFire ==
  /\ started
  /\ pollDue # None
  /\ now >= pollDue[1]
  /\ pollDue' = Rearm(now)
  /\ timerFirings' = timerFirings + 1
  /\ SetCtl(StopAutoScroll(Ctl))
  /\ indicatorUpdating' = TRUE
  /\ SetCd(ShowUpdatingText(Cd))
  /\ inflight' = BeginFetch(inflight, fetchesStarted + 1)
  /\ fetchesStarted' = fetchesStarted + 1
  /\ UNCHANGED << started, now, connVars, display, chartVars, firstLoad,
                  tableOverflow, restartVars, userVars, cyclesCompleted, lastOutcome, failStreak,
                  prevStreak >>

\* fetch() rejects: transport failure
FetchReject(f) ==
  /\ f \in inflight /\ f.stage = "fetch"
  /\ Catch(f, Conn, "transport")
  /\ UNCHANGED << started, now, pollDue, display, chartVars, firstLoad, scrollVars >>

\* fetch() resolves with a non-2xx response: `throw new Error(...)`
FetchHttpError(f) ==
  /\ f \in inflight /\ f.stage = "fetch"
  /\ Catch(f, Conn, "http")
  /\ UNCHANGED << started, now, pollDue, display, chartVars, firstLoad, scrollVars >>

\* fetch() resolves with a 2xx response: the call suspends on response.json()
FetchOk(f) ==
  /\ f \in inflight /\ f.stage = "fetch"
  /\ inflight' = (inflight \ {f}) \cup {[f EXCEPT !.stage = "json"]}
  /\ UNCHANGED << started, now, connVars, countdownVars, indicatorUpdating,
                  pollDue, display, chartVars, firstLoad, scrollVars, fetchesStarted,
                  timerFirings, cyclesCompleted, lastOutcome, failStreak,
                  prevStreak >>

\* response.json() rejects (the body is not JSON), or it resolves with null
\* and `data.error` throws: the catch block runs before any rendering
JsonReject(f) ==
  /\ f \in inflight /\ f.stage = "json"
  /\ Catch(f, Conn, "badjson")
  /\ UNCHANGED << started, now, pollDue, display, chartVars, firstLoad, scrollVars >>

\* response.json() resolves with a payload carrying a truthy `error`
JsonApiError(f) ==
  /\ f \in inflight /\ f.stage = "json"
  /\ SetConn(OnApiError(Conn, now))
  /\ Complete(f, "apperror")
  /\ UNCHANGED << started, now, countdownVars, indicatorUpdating, pollDue,
                  display, chartVars, firstLoad, scrollVars >>

\* response.json() resolves with a payload without `error` whose table
\* rendering throws: everything up to the throw, then the catch block
JsonMalformed(f, data) ==
  /\ f \in inflight /\ f.stage = "json"
  /\ ~data.error /\ RenderThrows(data)
  /\ display' = RenderWidgets(display, f.id, data)
  /\ IF display'.table = f.id
     THEN SetCtl(RepaintTable(Ctl, display'.rows))
     ELSE UNCHANGED ctlVars
  /\ Catch(f, UpdateConnectionStatus(Conn, TRUE, now), "malformed")
  /\ UNCHANGED << started, now, pollDue, chartVars, firstLoad,
                  tableOverflow, restartVars, userVars >>

\* response.json() resolves with a well-formed payload: the whole success path
JsonSuccess(f, data) ==
  /\ f \in inflight /\ f.stage = "json"
  /\ ~data.error /\ ~RenderThrows(data)
  /\ SetConn(UpdateConnectionStatus(Conn, TRUE, now))
  /\ display' = [RenderChart(RenderWidgets(display, f.id, data), f.id, data)
                   EXCEPT !.snapshot = f.id]
  /\ SetCtl(RepaintTable(Ctl, display'.rows))
  /\ IF energyChart = None
     THEN UNCHANGED chartVars
     ELSE /\ energyChart' = UpdateChart(energyChart, data.chart)
          /\ chartInput' = Some(data.chart)
          /\ dataInput' = Some(data)
  /\ indicatorUpdating' = FALSE
  /\ nextUpdateTime' = Some(now + UPDATE_INTERVAL_MS)
  /\ restartTimers' = restartTimers \cup
       {[id |-> f.id, due |-> now + RESTART_DELAY_MS,
         rows |-> (data.statuses = "rows")]}
  /\ firstLoad' = FALSE
  /\ Complete(f, "success")
  /\ UNCHANGED << started, now, pollDue, countdownInterval, countdownTimers,
                  nextHandle, countdownText, countdownClass, tableOverflow,
                  startTimers, userVars >>

\* a tick as it would be if a countdown that has run out marked the
\* connection as lost
CountdownTickTimesOut(tm) ==
  /\ tm \in countdownTimers
  /\ now >= tm.due
  /\ LET c == UpdateCountdown(Cd, now)
         live == {x \in c.countdownTimers : x.id = tm.id}
     IN  SetCd([c EXCEPT !.countdownTimers =
                  (c.countdownTimers \ live) \cup
                  {[x EXCEPT !.due = now + COUNTDOWN_TICK_MS] : x \in live}])
  /\ IF nextUpdateTime # None /\ nextUpdateTime[1] - now <= 0
     THEN SetConn(UpdateConnectionStatus(Conn, FALSE, now))
     ELSE UNCHANGED connVars
  /\ UNCHANGED << started, now, indicatorUpdating, pollDue, inflight,
                  display, chartVars, firstLoad, scrollVars, historyVars >>

\* a 1 s interval timer fires: updateCountdown()
CountdownTick(tm) ==
  /\ tm \in countdownTimers
  /\ now >= tm.due
  /\ LET c == UpdateCountdown(Cd, now)
         live == {x \in c.countdownTimers : x.id = tm.id}
     IN  SetCd([c EXCEPT !.countdownTimers =
                  (c.countdownTimers \ live) \cup
                  {[x EXCEPT !.due = now + COUNTDOWN_TICK_MS] : x \in live}])
  /\ UNCHANGED << started, now, connVars, indicatorUpdating, pollDue, inflight,
                  display, chartVars, firstLoad, scrollVars, historyVars >>

Next ==
  \/ Startup
  \/ AdvanceTime
  \/ PollTimerFire
  \/ \E f \in inflight : FetchReject(f)
  \/ \E f \in inflight : FetchHttpError(f)
  \/ \E f \in inflight : FetchOk(f)
  \/ \E f \in inflight : JsonReject(f)
  \/ \E f \in inflight : JsonApiError(f)
  \/ \E f \in inflight : \E data \in Payloads : JsonMalformed(f, data)
  \/ \E f \in inflight : \E data \in Payloads : JsonSuccess(f, data)
  \/ \E tm \in countdownTimers : CountdownTick(tm)

Spec == Init /\ [][Next]_vars

(* ---------------------------------------------------------------------- *)
(* Auto-scroll: frames, timeouts and user events.  The delays of these    *)
(* timeouts (100 ms to 3 s) are below the resolution of the clock, so a   *)
(* pending frame or timeout may run at any later moment.                  *)
(* ---------------------------------------------------------------------- *)
\* the pending frames: the one whose handle is held ("held") and the others
PendingFrames ==
  (IF scrollAnimationFrame = Some("pending") THEN {"held"} ELSE {}) \cup
  (IF frames > (IF scrollAnimationFrame = Some("pending") THEN 1 ELSE 0)
     THEN {"other"} ELSE {})

PendingPauses == pauseTimers[FALSE] + pauseTimers[TRUE]

\* a pending animation frame runs autoScrollTable()
FrameFire(h) ==
  /\ h \in PendingFrames
  /\ SetCtl(AutoScrollTable(
       [Ctl EXCEPT !.frames = @ - 1,
                   !.scrollAnimationFrame =
                      IF h = "held" THEN Some("ran") ELSE @]))
  /\ pauseTimers'[FALSE] + pauseTimers'[TRUE] <= MaxPauseTimers
  /\ UNCHANGED << pageVars, tableOverflow, restartVars, userVars >>

\* an edge-pause timeout runs its callback
PauseTimerFire(wasAtBottom) ==
  /\ pauseTimers[wasAtBottom] > 0
  /\ SetCtl(PauseTimeout([Ctl EXCEPT !.pauseTimers[wasAtBottom] = @ - 1],
                         wasAtBottom))
  /\ frames' <= MaxFrames
  /\ UNCHANGED << pageVars, tableOverflow, restartVars, userVars >>

\* tableWrapper.scrollTop = 0 of the restart
ResetOffsetSkipped(c) == c

ResetOffset(c) == AssignScrollTop(c, 0)

\* the 500 ms timeout of a finished cycle, run when due: reset the offset
\* and set the 100 ms timeout, if the payload had rows
RestartTimerFire(tm) ==
  /\ tm \in restartTimers
  /\ restartTimers' = restartTimers \ {tm}
  /\ IF tm.rows /\ HasTableWrapper
     THEN /\ SetCtl(ResetOffset(Ctl))
          /\ startTimers' = startTimers \cup
               {[id |-> tm.id, due |-> tm.due + START_DELAY_MS]}
     ELSE UNCHANGED << ctlVars, startTimers >>
  /\ UNCHANGED << pageVars, tableOverflow, userVars >>

\* the 100 ms timeout: startAutoScroll()
StartTimerFire(tm) ==
  /\ tm \in startTimers
  /\ startTimers' = startTimers \ {tm}
  /\ SetCtl(StartAutoScroll(Ctl))
  /\ frames' <= MaxFrames
  /\ UNCHANGED << pageVars, tableOverflow, restartTimers, userVars >>

\* mouseenter on the table wrapper
MouseEnter ==
  /\ ~hovering
  /\ hovering' = TRUE
  /\ SetCtl(StopAutoScroll(Ctl))
  /\ UNCHANGED << pageVars, tableOverflow, restartVars, scrollTimeout,
                  quietTimers >>

\* mouseleave
MouseLeave ==
  /\ hovering
  /\ hovering' = FALSE
  /\ SetCtl(StartAutoScroll(Ctl))
  /\ frames' <= MaxFrames
  /\ UNCHANGED << pageVars, tableOverflow, restartVars, scrollTimeout,
                  quietTimers >>

\* offsets a user's scrolling leaves the table at: the top, the bottom and
\* a place in between
UserOffsets == {0, Min(EDGE_NUDGE, maxScroll), maxScroll}

\* setTimeout(..., 3000) of the wheel and touchend listeners, kept in
\* scrollTimeout
SetQuietTimer(timers) ==
  /\ quietTimers' = timers + 1
  /\ scrollTimeout' = Some("pending")

PendingQuiets ==
  (IF scrollTimeout = Some("pending") THEN {"held"} ELSE {}) \cup
  (IF quietTimers > (IF scrollTimeout = Some("pending") THEN 1 ELSE 0)
     THEN {"other"} ELSE {})

\* wheel over the table: the listener, and the scrolling the wheel causes
Wheel(pos) ==
  /\ hovering
  /\ pos \in UserOffsets
  /\ SetCtl(AssignScrollTop(StopAutoScroll(Ctl), pos))
  /\ SetQuietTimer(IF scrollTimeout = Some("pending") THEN quietTimers - 1
                   ELSE quietTimers)
  /\ UNCHANGED << pageVars, tableOverflow, restartVars, hovering >>

\* touchmove: the listener, and the scrolling the finger causes
TouchMove(pos) ==
  /\ pos \in UserOffsets
  /\ SetCtl(AssignScrollTop(StopAutoScroll(Ctl), pos))
  /\ UNCHANGED << pageVars, tableOverflow, restartVars, userVars >>

\* touchend: a further quiet timeout, the earlier one is not cleared
TouchEnd ==
  /\ quietTimers < MaxQuietTimers
  /\ SetQuietTimer(quietTimers)
  /\ UNCHANGED << pageVars, ctlVars, tableOverflow, restartVars, hovering >>

\* a quiet timeout runs: restart if the content overflows
QuietTimerFire(h) ==
  /\ h \in PendingQuiets
  /\ quietTimers' = quietTimers - 1
  /\ scrollTimeout' = IF h = "held" THEN Some("ran") ELSE scrollTimeout
  /\ IF maxScroll > 0 THEN SetCtl(StartAutoScroll(Ctl))
                      ELSE UNCHANGED ctlVars
  /\ frames' <= MaxFrames
  /\ UNCHANGED << pageVars, tableOverflow, restartVars, hovering >>


TypeOK ==
  /\ started \in BOOLEAN
  /\ now \in 0..MaxTime
  /\ connectionStatus \in {"unknown", "connected", "disconnected"}
  /\ failedFetchCount \in Nat
  /\ Cardinality(countdownTimers) <= 1
  /\ isScrolling \in BOOLEAN /\ scrollPaused \in BOOLEAN
  /\ scrollDirection \in {-1, 1}
  /\ scrollAnimationFrame \in {None, Some("pending"), Some("ran")}
  /\ frames \in Nat
  /\ (scrollAnimationFrame = Some("pending") => frames >= 1)
  /\ pauseTimers \in [BOOLEAN -> Nat]
  /\ maxScroll \in {0, tableOverflow}
  /\ scrollTop \in 0..maxScroll
  /\ scrollTimeout \in {None, Some("pending"), Some("ran")}
  /\ quietTimers \in Nat
  /\ (scrollTimeout = Some("pending") => quietTimers >= 1)
  /\ (energyChart # None =>
        /\ energyChart.labels \in Seq(Seq(0..9))
        /\ Len(energyChart.datasets) = 4)
  /\ (energyChart = None => chartInput = None)

(* ---------------------------------------------------------------------- *)
(* The page with its auto-scroll controller and a user: the fetch cycles   *)
(* together with frames, timeouts and pointer, wheel and touch events, in  *)
(* a viewport where the full table overflows or in one where it fits.     *)
(* ---------------------------------------------------------------------- *)
Viewports == {0, Px(FullTableOverflowPx)}

\* the payloads as far as the table is concerned
ScrollPayloads ==
  {data \in Payloads : ~data.error /\ ChartGuard(data.chart)}

ScrollInit ==
  /\ InitPage
  /\ ChartNotFollowed
  /\ tableOverflow \in Viewports

\* the clock, followed over the shorter horizon: its next reading comes
\* after the pending timeouts, whose delays are below its resolution
ScrollAdvanceTime ==
  /\ restartTimers = {} /\ startTimers = {}
  /\ PendingPauses = 0 /\ quietTimers = 0
  /\ AdvanceTime
  /\ now' <= ScrollMaxTime

ScrollNext ==
  \/ Startup
  \/ ScrollAdvanceTime
  \/ PollTimerFire
  \/ \E f \in inflight : FetchReject(f)
  \/ \E f \in inflight : FetchOk(f)
  \/ \E f \in inflight : \E data \in ScrollPayloads : JsonMalformed(f, data)
  \/ \E f \in inflight : \E data \in ScrollPayloads : JsonSuccess(f, data)
  \/ \E tm \in restartTimers : RestartTimerFire(tm)
  \/ \E tm \in startTimers : StartTimerFire(tm)
  \/ \E h \in PendingFrames : FrameFire(h)
  \/ \E wasAtBottom \in BOOLEAN : PauseTimerFire(wasAtBottom)
  \/ MouseEnter
  \/ MouseLeave
  \/ \E pos \in UserOffsets : Wheel(pos)
  \/ \E pos \in UserOffsets : TouchMove(pos)
  \/ TouchEnd
  \/ \E h \in PendingQuiets : QuietTimerFire(h)

ScrollSpec == ScrollInit /\ [][ScrollNext]_vars

(* ---------------------------------------------------------------------- *)
(* The controller left to itself: after the first cycle, a success with    *)
(* rows at time 0, has restarted it, only frames and edge-pause timeouts   *)
(* run; no user event, no further fetch.  The viewport gives the table an  *)
(* overflow of half a pixel up to MaxOverflowPx pixels.                    *)
(* ---------------------------------------------------------------------- *)
SweepOverflows == 1..Px(MaxOverflowPx)

SweepInit ==
  /\ tableOverflow \in SweepOverflows
  /\ started = TRUE
  /\ now = 0
  /\ connectionStatus = "connected"
  /\ failedFetchCount = 0
  /\ lastSuccessfulConnection = Some(0)
  /\ nextUpdateTime = Some(UPDATE_INTERVAL_MS)
  /\ countdownInterval = Some(1)
  /\ countdownTimers = {[id |-> 1, due |-> COUNTDOWN_TICK_MS]}
  /\ nextHandle = 2
  /\ countdownText = FormatCountdown(UPDATE_INTERVAL_MS)
  /\ countdownClass = {}
  /\ indicatorUpdating = FALSE
  /\ pollDue = Some(UPDATE_INTERVAL_MS)
  /\ inflight = {}
  /\ display = [kpi |-> 1, alerts |-> 1, table |-> 1, chart |-> 1,
                rows |-> "full", snapshot |-> 1,
                grid |-> GridKpi(SamplePayload),
                tableRows |-> TableRows(SamplePayload.plants)]
  /\ ChartNotFollowed
  /\ firstLoad = FALSE
  /\ LET idle == [isScrolling |-> FALSE, scrollPaused |-> FALSE,
                  scrollDirection |-> 1, scrollAnimationFrame |-> None,
                  frames |-> 0,
                  pauseTimers |-> [wasAtBottom \in BOOLEAN |-> 0],
                  scrollTop |-> 0, maxScroll |-> 0]
         c == StartAutoScroll(ResetOffset(RepaintTable(idle, "full")))
     IN  /\ isScrolling = c.isScrolling
         /\ scrollPaused = c.scrollPaused
         /\ scrollDirection = c.scrollDirection
         /\ scrollAnimationFrame = c.scrollAnimationFrame
         /\ frames = c.frames
         /\ pauseTimers = c.pauseTimers
         /\ scrollTop = c.scrollTop
         /\ maxScroll = c.maxScroll
  /\ restartTimers = {} /\ startTimers = {}
  /\ hovering = FALSE /\ scrollTimeout = None /\ quietTimers = 0
  /\ fetchesStarted = 1 /\ timerFirings = 0 /\ cyclesCompleted = 1
  /\ lastOutcome = "success" /\ failStreak = 0 /\ prevStreak = 0

SweepNext ==
  \/ \E h \in PendingFrames : FrameFire(h)
  \/ \E wasAtBottom \in BOOLEAN : PauseTimerFire(wasAtBottom)

SweepSpec == SweepInit /\ [][SweepNext]_vars

\* the browser runs a pending frame and a pending timeout
FairSweepSpec ==
  /\ SweepSpec
  /\ WF_vars(\E h \in PendingFrames : FrameFire(h))
  /\ WF_vars(\E wasAtBottom \in BOOLEAN : PauseTimerFire(wasAtBottom))

(* ---------------------------------------------------------------------- *)
(* The countdown followed tick by tick.  The 1 s interval timer runs its   *)
(* callback before the clock moves on; the callback comes on time, half a  *)
(* tick late, or, while the countdown is more than FineWindow away from    *)
(* its end, only after a long delay (a throttled page).                    *)
(* ---------------------------------------------------------------------- *)
FineWindow == MaxFineTicks * COUNTDOWN_TICK_MS

\* delays between two callbacks of the 1 s interval
FineSteps == {COUNTDOWN_TICK_MS, COUNTDOWN_TICK_MS + COUNTDOWN_TICK_MS \div 2}

\* the remaining time a tick would compute now
Remaining ==
  IF nextUpdateTime = None THEN 0 ELSE Max(0, nextUpdateTime[1] - now)

\* a late callback: after half a minute, or when the last FineWindow of the
\* countdown begins
ThrottledSteps == {CRITICAL_MS, Remaining - FineWindow}

\* the countdown is followed through the first interval and into the second
CountdownMaxTime == UPDATE_INTERVAL_MS + ScrollMaxTime \div 2

CountdownTimeSteps ==
  {d \in FineSteps \cup ThrottledSteps \cup
          (IF pollDue = None THEN {} ELSE {pollDue[1] - now}) :
     /\ d > 0
     /\ now + d <= CountdownMaxTime
     /\ pollDue # None => now + d <= pollDue[1]
     /\ d \in FineSteps => Remaining <= FineWindow}

CountdownAdvanceTime ==
  /\ started
  /\ \A tm \in countdownTimers : now < tm.due
  /\ \E d \in CountdownTimeSteps : now' = now + d
  /\ UNCHANGED << started, connVars, countdownVars, indicatorUpdating, pollDue,
                  inflight, display, chartVars, firstLoad, scrollVars, historyVars >>

\* the payloads as far as the countdown is concerned
CountdownPayloads ==
  {data \in Payloads :
     ~data.error /\ ChartGuard(data.chart) /\ data.statuses = "rows"}

CountdownNext ==
  \/ Startup
  \/ CountdownAdvanceTime
  \/ PollTimerFire
  \/ \E f \in inflight : FetchReject(f)
  \/ \E f \in inflight : FetchOk(f)
  \/ \E f \in inflight : JsonApiError(f)
  \/ \E f \in inflight : \E data \in CountdownPayloads : JsonSuccess(f, data)
  \/ \E tm \in countdownTimers : CountdownTick(tm)

CountdownSpec == Init /\ [][CountdownNext]_vars

(* ---------------------------------------------------------------------- *)
(* The page with the content of its chart followed: the fetch cycles with  *)
(* payloads whose charts cover no part, the first part or the whole of a   *)
(* day, with series longer or shorter than the label axis, and with one    *)
(* of the four series missing, null, not an array or short.               *)
(* ---------------------------------------------------------------------- *)
FullDay == Len(GenerateFullDayXAxis)

\* <<number of labels, number of readings of each series>>
ChartShapes ==
  {<< 0, 0 >>, << ShortSeries, ShortSeries >>,
   << ShortSeries, ShortSeries + 1 >>, << ShortSeries + 1, ShortSeries >>,
   << FullDay, FullDay >>, << FullDay + 1, FullDay + 1 >>}

SeriesNames == {"production", "consumption", "self_consumption", "surplus"}

\* the chart c with its series called name replaced by the value v
WithSeries(c, name, v) ==
  CASE name = "production" -> [c EXCEPT !.production = v]
    [] name = "consumption" -> [c EXCEPT !.consumption = v]
    [] name = "self_consumption" -> [c EXCEPT !.self_consumption = v]
    [] name = "surplus" -> [c EXCEPT !.surplus = v]

\* a chart that is the aligned form of a partial day: a full label axis and
\* four series of readings followed by nulls
AlignedPartialDay ==
  LET aligned == AlignChart(PlainChart(ShortSeries, ShortSeries))
  IN  Chart(Array(aligned.labels), Array(aligned.datasets[1]),
            Array(aligned.datasets[2]), Array(aligned.datasets[3]),
            Array(aligned.datasets[4]))

ChartInputs ==
  {NoChart, AlignedPartialDay} \cup
  {PlainChart(shape[1], shape[2]) : shape \in ChartShapes} \cup
  {[PlainChart(ShortSeries, ShortSeries) EXCEPT !.x_axis = Undefined]} \cup
  {WithSeries(PlainChart(ShortSeries, ShortSeries), name, v) :
     name \in SeriesNames,
     v \in {Undefined, Null, PlainObject,
            Array(Readings(5, ShortSeries - 1))}}

ChartPayloads ==
  {Payload(FALSE, Num(520), Num(310), SampleAlerts, Array(<< SamplePlant >>),
           chart) : chart \in ChartInputs}

\* the page as loaded, with the chart as constructed
ChartInit ==
  /\ InitPage
  /\ energyChart = InitialChart
  /\ chartInput = None
  /\ dataInput = None
  /\ tableOverflow = Px(FullTableOverflowPx)

\* the clock, followed over the shorter horizon
ChartAdvanceTime ==
  /\ AdvanceTime
  /\ now' <= ScrollMaxTime

ChartNext ==
  \/ Startup
  \/ ChartAdvanceTime
  \/ PollTimerFire
  \/ \E f \in inflight : FetchReject(f)
  \/ \E f \in inflight : FetchOk(f)
  \/ \E f \in inflight : \E data \in Payloads : JsonMalformed(f, data)
  \/ \E f \in inflight : \E data \in ChartPayloads : JsonSuccess(f, data)

ChartSpec == ChartInit /\ [][ChartNext]_vars

(* ---------------------------------------------------------------------- *)
(* The page with the content of the snapshot: payloads that differ in     *)
(* production and consumption, in their alerts and in their plants.       *)
(* ---------------------------------------------------------------------- *)
\* values of data.production and data.consumption
KpiValues ==
  {Undefined, Null, OtherString, PlainObject, NumericString(520),
   Num(-100), Num(0), Num(310), Num(520)}

\* values of a numeric field of a plant
PlantValues == {Undefined, Null, OtherString, Num(0), Num(150), Num(-50)}

PlantFields == {"pinstalled", "production", "grid", "consumption", "surplus"}

\* the plant with its field called name replaced by the value v
WithField(plant, name, v) ==
  CASE name = "pinstalled" -> [plant EXCEPT !.pinstalled = v]
    [] name = "production" -> [plant EXCEPT !.production = v]
    [] name = "grid" -> [plant EXCEPT !.grid = v]
    [] name = "consumption" -> [plant EXCEPT !.consumption = v]
    [] name = "surplus" -> [plant EXCEPT !.surplus = v]

\* plants whose five fields hold the same value, and plants in order but
\* for one field
Plants ==
  {Plant(icon, v, v, v, v, v) : icon \in {"critical", "ok"},
                                v \in PlantValues} \cup
  {WithField([SamplePlant EXCEPT !.status_icon = icon], name, v) :
     icon \in {"critical", "ok"}, name \in PlantFields, v \in PlantValues}

\* a critical plant without any of its numeric fields
MissingCritical ==
  Plant("critical", Undefined, Undefined, Undefined, Undefined, Undefined)

SnapshotStatuses ==
  SampleStatuses \cup
  {Array(<< plant >>) : plant \in Plants} \cup
  {Array(<< MissingCritical, SamplePlant >>),
   Array(<< SamplePlant, MissingCritical >>),
   Array(<< SamplePlant, BadPlant >>), Array(<< BadPlant, SamplePlant >>)}

\* values of data.alerts
AlertValues ==
  {Undefined, Null, PlainObject, OtherString, Array(<< >>),
   Array(<< OtherString >>)}

SnapshotPayloads ==
  {Payload(FALSE, production, consumption, SampleAlerts,
           Array(<< SamplePlant >>), SampleChart) :
     production \in KpiValues, consumption \in KpiValues} \cup
  {Payload(FALSE, Num(520), Num(310), SampleAlerts, statuses, SampleChart) :
     statuses \in SnapshotStatuses} \cup
  {Payload(FALSE, Num(520), Num(310), alerts, Array(<< SamplePlant >>),
           chart) : alerts \in AlertValues, chart \in {NoChart, SampleChart}}

SnapshotNext ==
  \/ Startup
  \/ ChartAdvanceTime
  \/ PollTimerFire
  \/ \E f \in inflight : FetchReject(f)
  \/ \E f \in inflight : FetchOk(f)
  \/ \E f \in inflight : \E data \in SnapshotPayloads : JsonMalformed(f, data)
  \/ \E f \in inflight : \E data \in SnapshotPayloads : JsonSuccess(f, data)

SnapshotSpec == ChartInit /\ [][SnapshotNext]_vars

(* ---------------------------------------------------------------------- *)
(* The page with everything that runs on it, from the moment the first    *)
(* cycle, a success with rows at time 0, has restarted the controller:    *)
(* the next fetch cycle with all its outcomes, the countdown ticks, the   *)
(* controller's frames and timeouts and the user's events, in a viewport  *)
(* where the table overflows.                                             *)
(* ---------------------------------------------------------------------- *)
EventInit ==
  /\ SweepInit
  /\ tableOverflow = Px(FullTableOverflowPx)

\* the clock goes from one firing of the periodic timer to the next
EventAdvanceTime ==
  /\ ScrollAdvanceTime
  /\ pollDue # None /\ now' = pollDue[1]

\* a payload in order and one whose table code throws
EventPayloads ==
  {data \in ScrollPayloads : data.statuses \in {"rows", "badrow"}}

EventNext ==
  \/ EventAdvanceTime
  \/ PollTimerFire
  \/ \E f \in inflight : FetchReject(f)
  \/ \E f \in inflight : FetchHttpError(f)
  \/ \E f \in inflight : FetchOk(f)
  \/ \E f \in inflight : JsonReject(f)
  \/ \E f \in inflight : JsonApiError(f)
  \/ \E f \in inflight : \E data \in EventPayloads : JsonMalformed(f, data)
  \/ \E f \in inflight : \E data \in EventPayloads : JsonSuccess(f, data)
  \/ \E tm \in countdownTimers : CountdownTick(tm)
  \/ \E tm \in restartTimers : RestartTimerFire(tm)
  \/ \E tm \in startTimers : StartTimerFire(tm)
  \/ \E h \in PendingFrames : FrameFire(h)
  \/ \E wasAtBottom \in BOOLEAN : PauseTimerFire(wasAtBottom)
  \/ MouseEnter
  \/ MouseLeave
  \/ Wheel(maxScroll)
  \/ TouchMove(maxScroll)
  \/ TouchEnd
  \/ \E h \in PendingQuiets : QuietTimerFire(h)

EventSpec == EventInit /\ [][EventNext]_vars

(* ---------------------------------------------------------------------- *)
(* Fairness: the browser's event loop runs the startup script, lets time   *)
(* pass and runs a due periodic timer.  Nothing is assumed of the network: *)
(* a fetch may stay unresolved forever.                                    *)
(* ---------------------------------------------------------------------- *)
FairSpec ==
  /\ Spec
  /\ WF_vars(Startup)
  /\ WF_vars(AdvanceTime)
  /\ WF_vars(PollTimerFire)

(* ---------------------------------------------------------------------- *)
(* Derived history                                                        *)
(* ---------------------------------------------------------------------- *)
Failures == {"transport", "http", "badjson", "apperror", "malformed"}

\* this step finishes a cycle with an outcome in kinds
Finishes(kinds) ==
  /\ cyclesCompleted' = cyclesCompleted + 1
  /\ lastOutcome' \in kinds

\* this step is a call of fetchLiveData from the startup script or the timer
Scheduled == (~started /\ started') \/ timerFirings' = timerFirings + 1

NewCalls == {f \in inflight' : f.stage = "fetch"} \ inflight

(* ---------------------------------------------------------------------- *)
(* Properties                                                             *)
(* ---------------------------------------------------------------------- *)

\* C1: failedFetchCount equals the number of failed cycles since the most
\* recent successful cycle, and the status is 'disconnected' after each of
\* those failures.
C1_CountIsFailureStreak ==
  /\ failedFetchCount = failStreak
  /\ (failStreak > 0 => connectionStatus = "disconnected")

\* C2: a cycle that ends in success leaves the status 'connected', the
\* failure count 0 and lastSuccessfulConnection stamped with the time of
\* that cycle, whatever came before.
C2_SuccessResets ==
  [][Finishes({"success"}) =>
       /\ connectionStatus' = "connected"
       /\ failedFetchCount' = 0
       /\ lastSuccessfulConnection' = Some(now')]_vars

\* two failed cycles followed by a successful one have been completed
C2_Witness ==
  /\ lastOutcome = "success"
  /\ prevStreak = 2
  /\ cyclesCompleted = 3
  /\ failedFetchCount = 0
  /\ connectionStatus = "connected"

\* C3: an HTTP failure, a transport failure and an `error` payload each set
\* the status to 'disconnected', add exactly 1 to failedFetchCount and leave
\* lastSuccessfulConnection alone.
C3_FailureKindsAlike ==
  [][Finishes({"http", "transport", "apperror"}) =>
       /\ connectionStatus' = "disconnected"
       /\ failedFetchCount' = failedFetchCount + 1
       /\ lastSuccessfulConnection' = lastSuccessfulConnection]_vars

\* an `error` payload counted as the third failure in a row
C3_Witness ==
  /\ lastOutcome = "apperror"
  /\ failStreak = 3
  /\ failedFetchCount = 3

\* C4: a cycle with a malformed payload has the effect of a transport
\* failure on the connection state: 'disconnected', one more failure,
\* lastSuccessfulConnection unchanged.
C4_MalformedIsFailure ==
  [][Finishes({"malformed", "badjson"}) =>
       /\ connectionStatus' = "disconnected"
       /\ failedFetchCount' = failedFetchCount + 1
       /\ lastSuccessfulConnection' = lastSuccessfulConnection]_vars

\* C5: every completion of a cycle, successful or not, sets nextUpdateTime to
\* the completion time plus UPDATE_INTERVAL_MS.
C5_CompletionResetsCountdown ==
  [][Finishes(Failures \cup {"success"}) =>
       nextUpdateTime' = Some(now' + UPDATE_INTERVAL_MS)]_vars

\* C6: whenever no fetch is in flight the update indicator does not carry
\* the 'updating' class.
C6_IdleNotUpdating ==
  inflight = {} => ~indicatorUpdating

\* C7: startup issues a fetch, and from every state whose next period lies
\* within the modelled time a further fetch is eventually started, whatever
\* the results of the cycles and the number of failures so far.
C7_CadenceNeverStops ==
  \A n \in 0..(MaxSteps \div 2) :
    [](((~started /\ n = 0) \/
        (started /\ fetchesStarted = n /\
         now + UPDATE_INTERVAL_MS <= MaxTime))
       => <>(fetchesStarted > n))

\* a third fetch has been started after two failed cycles
C7_Witness ==
  /\ fetchesStarted = 3
  /\ failedFetchCount = 2
  /\ connectionStatus = "disconnected"

\* C8: calls of fetchLiveData begin only in the startup script and at
\* firings of the periodic timer, exactly one per firing; no failure and no
\* countdown restart begins one.
C8_OneFetchPerFiring ==
  [][/\ Scheduled => Cardinality(NewCalls) = 1
     /\ ~Scheduled => NewCalls = {}
     /\ fetchesStarted' = 1 + timerFirings']_vars

\* after a failed cycle and a self-healing countdown restart, the timer has
\* fired once and two fetches have been started in all
C8_Witness ==
  /\ failedFetchCount >= 1
  /\ nextHandle >= 3
  /\ timerFirings = 1
  /\ fetchesStarted = 2

\* C9: there is no in-flight guard: an unresolved fetch does not keep the due
\* periodic timer from firing, and the firing adds a second call in flight.
C9_NoInFlightGuard ==
  /\ []((started /\ pollDue # None /\ now >= pollDue[1] /\ inflight # {})
         => ENABLED PollTimerFire)
  /\ [][(timerFirings' = timerFirings + 1 /\ inflight # {}) =>
         /\ inflight \subseteq inflight'
         /\ Cardinality(inflight') = Cardinality(inflight) + 1]_vars

\* two fetches are in flight
C9_Witness ==
  /\ Cardinality(inflight) = 2
  /\ timerFirings = 1

\* C10: once the response of a later-started fetch has been rendered, the
\* response of an earlier-started fetch is never rendered over it.
C10_NoStaleRender ==
  [][display'.snapshot >= display.snapshot]_vars

\* C11: a cycle that ends in failure leaves the displayed snapshot (KPI
\* values, alerts, table rows and chart) exactly as it was before the cycle
\* finished.
C11_FailureKeepsDisplay ==
  [][Finishes(Failures) => display' = display]_vars

\* this step empties the table body and fills it again
Repaints == display'.table # display.table

\* C12: whenever a cycle clears and rewrites the table rows, the controller
\* is stopped: isScrolling is false and no animation frame is pending.
C12_RepaintWhileStopped ==
  [][Repaints => (~isScrolling /\ frames = 0)]_vars

\* this step calls startAutoScroll() and the controller starts running
Starts == isScrolling' /\ (~isScrolling \/ frames' > frames)

\* C13: a successful cycle with rows restarts the controller in a fixed
\* order: the rows are rewritten, 500 ms later the offset is reset to 0,
\* 100 ms after that startAutoScroll() is called; the rewrite and the reset
\* of a cycle never start the controller themselves.
C13_RestartOrder ==
  [][/\ \A r \in restartTimers' \ restartTimers :
          /\ Repaints /\ display'.table = r.id
          /\ r.rows = (display'.rows = "full")
          /\ r.due = now' + RESTART_DELAY_MS
          /\ \A tm \in startTimers' : tm.id # r.id
     /\ \A tm \in startTimers' \ startTimers :
          /\ \E r \in restartTimers \ restartTimers' :
               r.id = tm.id /\ r.rows /\ tm.due = r.due + START_DELAY_MS
          /\ scrollTop' = 0
     /\ (Repaints \/ restartTimers' # restartTimers) => ~Starts
     /\ (startTimers' # startTimers /\ restartTimers' = restartTimers
         /\ maxScroll > 0)
          => (isScrolling' /\ scrollAnimationFrame' = Some("pending"))]_vars

\* the restart of a second successful cycle has run to its end on an
\* overflowing table: the offset is at 0, the controller runs and a frame
\* is pending
C13_Witness ==
  /\ cyclesCompleted = 2
  /\ lastOutcome = "success"
  /\ restartTimers = {} /\ startTimers = {}
  /\ isScrolling /\ frames = 1 /\ scrollTop = 0
  /\ ~hovering /\ scrollTimeout = None

\* this step calls startAutoScroll(): the 100 ms timeout of a restart, the
\* mouseleave listener, or a quiet timeout on overflowing content
CallsStart ==
  \/ startTimers' # startTimers /\ restartTimers' = restartTimers
  \/ hovering /\ ~hovering'
  \/ quietTimers' < quietTimers /\ maxScroll > 0

\* C14: startAutoScroll() on overflowing content sets scrollDirection to +1,
\* scrollPaused to false and isScrolling to true and leaves exactly one
\* animation frame pending, whatever the controller's state before the call.
C14_StartLeavesOneFrame ==
  [][(CallsStart /\ maxScroll > 0) =>
       /\ isScrolling' /\ ~scrollPaused' /\ scrollDirection' = 1
       /\ frames' = 1]_vars

\* C15: startAutoScroll() is idempotent: called twice in a row on
\* overflowing content it leaves the controller as one call does, with the
\* same flags and direction and exactly one pending animation frame.
C15_StartIdempotent ==
  maxScroll > 0 =>
    LET once == StartAutoScroll(Ctl)
        twice == StartAutoScroll(once)
    IN  /\ twice = once
        /\ twice.isScrolling /\ ~twice.scrollPaused
        /\ twice.scrollDirection = 1
        /\ twice.frames = 1

\* this step calls stopAutoScroll(): the start of a fetch, the mouseenter
\* listener, the wheel listener or the touchmove listener
CallsStop ==
  \/ Startup
  \/ PollTimerFire
  \/ MouseEnter
  \/ \E pos \in UserOffsets : Wheel(pos)
  \/ \E pos \in UserOffsets : TouchMove(pos)

\* C16: at each of its call sites stopAutoScroll() leaves isScrolling false
\* and no animation frame pending, and a second call changes nothing more.
C16_StopCancelsFrames ==
  [][CallsStop =>
       /\ ~isScrolling' /\ frames' = 0
       /\ StopAutoScroll(StopAutoScroll(Ctl)) = StopAutoScroll(Ctl)]_vars

\* this step runs controller code: a frame callback or an edge-pause timeout
ControllerRuns ==
  \/ \E h \in PendingFrames : FrameFire(h)
  \/ \E wasAtBottom \in BOOLEAN : PauseTimerFire(wasAtBottom)

\* C17: while the controller is stopped (from stopAutoScroll() to the next
\* startAutoScroll()) no frame callback and no edge-pause timeout changes
\* the scroll offset or scrollDirection.
C17_StoppedIsQuiet ==
  [][(~isScrolling /\ ControllerRuns) =>
       (scrollTop' = scrollTop /\ scrollDirection' = scrollDirection)]_vars

\* C18: on content that does not overflow the controller stays idle:
\* startAutoScroll() sets isScrolling false and requests no frame, in a
\* viewport where the table always fits nothing of the controller is ever
\* pending, and while maxScroll is 0 no step changes the scroll offset.
C18_NoOverflowStaysIdle ==
  /\ [](tableOverflow = 0 =>
          (~isScrolling /\ frames = 0 /\ PendingPauses = 0 /\ scrollTop = 0))
  /\ [][(((startTimers' # startTimers /\ restartTimers' = restartTimers)
           \/ (hovering /\ ~hovering')) /\ maxScroll = 0) =>
         (~isScrolling' /\ frames' <= frames)]_vars
  /\ [][(maxScroll = 0 /\ maxScroll' = 0) => scrollTop' = scrollTop]_vars

\* in a viewport where the table fits, two cycles with rows have finished
\* and run their restarts and the user has used the wheel and left the
\* table: the controller is idle
C18_Witness ==
  /\ tableOverflow = 0
  /\ display.rows = "full"
  /\ cyclesCompleted = 2
  /\ restartTimers = {} /\ startTimers = {}
  /\ scrollTimeout = Some("ran") /\ ~hovering
  /\ ~isScrolling /\ frames = 0

C20_ReversalAtEdge ==
  [][/\ (\E h \in PendingFrames : FrameFire(h)) =>
          scrollDirection' = scrollDirection
     /\ (\E wasAtBottom \in BOOLEAN : PauseTimerFire(wasAtBottom)) =>
          /\ scrollDirection' = -1 * scrollDirection
          /\ scrollTop \in {0, maxScroll}]_vars

\* C21: when an edge pause ends on content whose maxScroll exceeds the nudge
\* plus the threshold, scrollDirection points away from the edge that was
\* touched, the offset has been nudged away from that edge, and the next
\* frame moves the offset instead of pausing again; the first edge contact
\* after startAutoScroll() at offset 0 included.
C21_PauseEndsAwayFromEdge ==
  [][\A wasAtBottom \in BOOLEAN :
       (PauseTimerFire(wasAtBottom) /\ maxScroll > EDGE_NUDGE + threshold) =>
         /\ scrollDirection' = (IF wasAtBottom THEN -1 ELSE 1)
         /\ scrollTop' = (IF wasAtBottom THEN maxScroll - EDGE_NUDGE
                                         ELSE EDGE_NUDGE)
         /\ ~AutoScrollTable(Ctl').scrollPaused]_vars

\* this step is a pointer-hover, wheel or touch interaction that pauses
UserPauses ==
  \/ MouseEnter
  \/ \E pos \in UserOffsets : Wheel(pos)
  \/ \E pos \in UserOffsets : TouchMove(pos)

\* this step takes the controller from stopped to running
Resumes == ~isScrolling /\ isScrolling'

\* C22: a pointer-hover, wheel or touch interaction stops the controller;
\* while the pointer is over the table or a quiet period is running, the
\* controller resumes only when the last quiet timeout runs with the pointer
\* away, and a quiet timeout on content that does not overflow resumes
\* nothing.
C22_ResumeOnlyAfterQuiet ==
  [][/\ UserPauses => ~isScrolling'
     /\ (Resumes /\ (hovering \/ quietTimers > 0)) =>
          /\ \E h \in PendingQuiets : QuietTimerFire(h)
          /\ ~hovering /\ quietTimers = 1
     /\ ((\E h \in PendingQuiets : QuietTimerFire(h)) /\ maxScroll <= 0) =>
          ~isScrolling']_vars

\* this step is a firing of the 1 s interval: updateCountdown()
Ticks == \E tm \in countdownTimers : CountdownTick(tm)

\* C23: at most one countdown interval timer is live at any time, and it is
\* the one whose handle countdownInterval holds: none before the startup
\* statements, exactly one after them, also after every restart from inside
\* a tick.
C23_OneCountdownTimer ==
  /\ ~started => (countdownTimers = {} /\ countdownInterval = None)
  /\ started =>
       /\ Cardinality(countdownTimers) = 1
       /\ countdownInterval # None
       /\ \A tm \in countdownTimers : tm.id = countdownInterval[1]

\* a tick has found the countdown at zero and restarted it: the second
\* interval is the only live one
C23_Witness ==
  /\ nextHandle = 3
  /\ countdownInterval = Some(2)
  /\ Cardinality(countdownTimers) = 1
  /\ cyclesCompleted = 0
  /\ now >= UPDATE_INTERVAL_MS

\* the display shows no time left
ShowsZero == countdownText = FormatCountdown(0)

\* C24: a tick that finds remaining = 0 sets nextUpdateTime to now +
\* UPDATE_INTERVAL_MS within the tick, restarts the countdown exactly once
\* and leaves the full interval on display; a tick that follows a display of
\* 0:00 does not show 0:00 again, and after a tick has shown 0:00 the next
\* tick is not due before nextUpdateTime; stalled fetches included.
C24_ZeroRestartsAtOnce ==
  [][Ticks =>
       /\ (nextUpdateTime # None /\ Remaining = 0) =>
            /\ nextUpdateTime' = Some(now + UPDATE_INTERVAL_MS)
            /\ nextHandle' = nextHandle + 1
            /\ Cardinality(countdownTimers') = 1
            /\ countdownText' = FormatCountdown(UPDATE_INTERVAL_MS)
       /\ ShowsZero => ~ShowsZero'
       /\ ShowsZero' =>
            \A tm \in countdownTimers' : tm.due >= nextUpdateTime'[1]]_vars

\* while the first fetch is stalled and the second has begun, a tick past
\* nextUpdateTime has just restarted the countdown
C24_Witness ==
  /\ cyclesCompleted = 0 /\ Cardinality(inflight) = 2
  /\ nextHandle = 3
  /\ now > UPDATE_INTERVAL_MS
  /\ nextUpdateTime = Some(now + UPDATE_INTERVAL_MS)
  /\ countdownText = FormatCountdown(UPDATE_INTERVAL_MS)

\* the countdown element shows a time, not the busy marker
ShowsTime(text) == Len(text) = 3

\* the seconds a displayed time stands for
ShownSeconds(text) == 60 * text[2] + text[3]

\* the time the display was last written by the countdown: the interval is
\* armed 1 s ahead whenever updateCountdown() has run
LastTickTime ==
  CHOOSE t \in {tm.due - COUNTDOWN_TICK_MS : tm \in countdownTimers} : TRUE

\* the time on display is the one updateCountdown() computed from the
\* present nextUpdateTime
ShownIsCurrent ==
  countdownText = FormatCountdown(Max(0, nextUpdateTime[1] - LastTickTime))

\* C25 as stated: from one tick to the next the displayed remaining time
\* never increases unless the previously displayed value was 0:00.
C25_NeverIncreasesUntilZero ==
  [][(Ticks /\ ShowsTime(countdownText) /\ ShowsTime(countdownText')) =>
       \/ ShownSeconds(countdownText') <= ShownSeconds(countdownText)
       \/ ShowsZero]_vars

\* C25: from one tick to the next the displayed remaining time strictly
\* decreases, unless the tick finds remaining = 0 and restarts the countdown
\* or nextUpdateTime has been set anew since the display was written (a
\* fetch cycle finished); the tick then shows the time left to the new
\* nextUpdateTime.
C25_DecreasesBetweenResets ==
  [][(Ticks /\ ShowsTime(countdownText) /\ ShowsTime(countdownText')) =>
       \/ ShownSeconds(countdownText') < ShownSeconds(countdownText)
       \/ /\ Remaining = 0
          /\ countdownText' = FormatCountdown(UPDATE_INTERVAL_MS)
       \/ /\ ~ShownIsCurrent
          /\ countdownText' = FormatCountdown(Remaining)]_vars

\* a tick has shown a time on the way to zero, the first fetch has finished
\* since, and the next tick, due now and on time, is about to show more
C25_Witness ==
  /\ cyclesCompleted = 1
  /\ nextHandle = 2
  /\ ShowsTime(countdownText)
  /\ ~ShowsZero
  /\ ~ShownIsCurrent
  /\ ShownSeconds(countdownText) < Remaining \div 1000
  /\ LastTickTime > 0
  /\ now = LastTickTime + COUNTDOWN_TICK_MS

\* C26: after every countdown tick the display carries exactly the severity
\* of the remaining time it shows: 'critical' iff less than 30 s remain,
\* 'warning' iff at least 30 s and less than 60 s remain, neither class iff
\* 60 s or more remain; never both classes.
C26_SeverityMatchesRemaining ==
  [][Ticks =>
       LET remaining == Max(0, nextUpdateTime'[1] - now')
       IN  /\ countdownText' = FormatCountdown(remaining)
           /\ ("critical" \in countdownClass') = (remaining < 30000)
           /\ ("warning" \in countdownClass') =
                (30000 <= remaining /\ remaining < 60000)
           /\ (countdownClass' = {}) = (remaining >= 60000)
           /\ ~(SeverityClasses \subseteq countdownClass')]_vars

\* a tick has found exactly 30 s remaining and shows 'warning', the class
\* of the tick before it removed
C26_Witness ==
  /\ nextUpdateTime # None
  /\ nextUpdateTime[1] - now = CRITICAL_MS
  /\ LastTickTime = now
  /\ countdownText = FormatCountdown(CRITICAL_MS)
  /\ countdownClass = {"warning"}

(* ---------------------------------------------------------------------- *)
(* Properties of the chart (ChartSpec)                                    *)
(* ---------------------------------------------------------------------- *)
\* the four series of a payload's chart, in the order of the datasets
InputSeries(c) ==
  << c.production, c.consumption, c.self_consumption, c.surplus >>

\* the chart of the cycle that completed last
LastChart == chartInput[1]

\* a chart payload with all four arrays present, k labels with k not above
\* 289, and at least k readings in each array
WellFormedChart(c) ==
  /\ c.type = "object"
  /\ c.x_axis.type = "array"
  /\ Len(c.x_axis.items) <= 289
  /\ \A s \in 1..4 :
       /\ InputSeries(c)[s].type = "array"
       /\ Len(InputSeries(c)[s].items) >= Len(c.x_axis.items)

\* C27: after a cycle whose chart payload has all four arrays, k = x_axis
\* length <= 289 and each array of length >= k, each of the four series of
\* the chart has exactly 289 entries, equals its input at every index below
\* k, and is null (not 0) at every index from k on.
C27_AlignedSeries ==
  (chartInput # None /\ WellFormedChart(LastChart)) =>
    LET k == Len(LastChart.x_axis.items)
    IN  \A s \in 1..4 :
          LET series == energyChart.datasets[s]
          IN  /\ Len(series) = 289
              /\ \A i \in 1..k : series[i] = InputSeries(LastChart)[s].items[i]
              /\ \A i \in (k + 1)..289 : series[i] = None

\* a cycle has completed whose chart had fewer labels than readings: the
\* readings beyond the labels are dropped and the rest of the day is null
C27_Witness ==
  /\ chartInput = Some(PlainChart(ShortSeries, ShortSeries + 1))
  /\ \A s \in 1..4 :
       /\ Len(energyChart.datasets[s]) = 289
       /\ energyChart.datasets[s][ShortSeries] # None
       /\ energyChart.datasets[s][ShortSeries + 1] = None

\* all four series of the chart c are arrays
FourArrays(c) ==
  /\ c.type = "object"
  /\ \A s \in 1..4 : InputSeries(c)[s].type = "array"

\* the chart c is four aligned series: 289 labels and 289 items in each
AlreadyAligned(c) ==
  /\ FourArrays(c)
  /\ c.x_axis.type = "array"
  /\ Len(c.x_axis.items) = 289
  /\ \A s \in 1..4 : Len(InputSeries(c)[s].items) = 289

\* C28: the alignment is idempotent and pure.  A successful cycle whose
\* chart has its four arrays leaves the chart that the same payload gives
\* on the chart as constructed, whatever the earlier cycles rendered; and
\* when the four series are already aligned (289 items each, k = 289) the
\* datasets are those series unchanged.
C28_IdempotentAndPure ==
  [][(Finishes({"success"}) /\ FourArrays(LastChart')) =>
       /\ energyChart' = UpdateChart(InitialChart, LastChart')
       /\ AlreadyAligned(LastChart') =>
            \A s \in 1..4 :
              energyChart'.datasets[s] = InputSeries(LastChart')[s].items]_vars

\* the second cycle has completed on a payload that is itself an aligned
\* partial day (readings followed by nulls), and the datasets are its series
C28_Witness ==
  /\ cyclesCompleted = 2
  /\ lastOutcome = "success"
  /\ chartInput = Some(AlignedPartialDay)
  /\ AlreadyAligned(LastChart)
  /\ energyChart.datasets[1][ShortSeries + 1] = None
  /\ \A s \in 1..4 :
       energyChart.datasets[s] = InputSeries(LastChart)[s].items

\* C29: if `chart` is absent, or any of production, consumption,
\* self_consumption, surplus is missing or not an array, the chart update is
\* skipped wholesale: the cycle leaves the labels and all four datasets
\* exactly as they were rendered before it.
C29_SkippedWholesale ==
  [][(Finishes({"success"}) /\ ~FourArrays(LastChart')) =>
       energyChart' = energyChart]_vars

\* the second cycle has completed on a payload whose surplus is null and
\* whose other three series are arrays, and the chart still shows the day
\* rendered by the first cycle, surplus included
C29_Witness ==
  /\ cyclesCompleted = 2
  /\ lastOutcome = "success"
  /\ chartInput =
       Some(WithSeries(PlainChart(ShortSeries, ShortSeries), "surplus", Null))
  /\ \A s \in 1..4 :
       /\ Len(energyChart.datasets[s]) = 289
       /\ energyChart.datasets[s][1] # None

\* the label 'hh:mm' of the minute of the day minutes
LabelOfMinute(minutes) ==
  << (minutes \div 60) \div 10, (minutes \div 60) % 10,
     (minutes % 60) \div 10, (minutes % 60) % 10 >>

\* C30: the chart's label axis is always exactly 289 labels, '00:00' through
\* '24:00' in ascending 5-minute steps, as constructed and after every chart
\* update, whatever the length of the series received.
C30_DayGrid ==
  /\ Len(energyChart.labels) = 289
  /\ \A i \in 1..289 : energyChart.labels[i] = LabelOfMinute(5 * (i - 1))
  /\ energyChart.labels[1] = << 0, 0, 0, 0 >>
  /\ energyChart.labels[289] = << 2, 4, 0, 0 >>

\* a cycle has completed on a payload of 290 labels and 290 readings per
\* series: the datasets hold 290 items and the label axis still has 289
C30_Witness ==
  /\ chartInput = Some(PlainChart(FullDay + 1, FullDay + 1))
  /\ lastOutcome = "success"
  /\ Len(energyChart.datasets[1]) = 290
  /\ Len(energyChart.labels) = 289

(* ---------------------------------------------------------------------- *)
(* Properties of the snapshot (SnapshotSpec)                              *)
(* ---------------------------------------------------------------------- *)
\* the payload of the cycle that succeeded last
LastData == dataInput[1]

\* the KPI cards, the table show what the last successful cycle wrote
ShowsLastKpi == dataInput # None /\ display.kpi = display.snapshot

ShowsLastTable == dataInput # None /\ display.table = display.snapshot

\* what a field of the payload counts for, in hundredths: its number, or 0
\* when it is absent or not numeric
Amount(v) ==
  IF v.type \in {"number", "string"} /\ v.items # << >> THEN v.items[1] ELSE 0

\* the text of a non-negative amount of n hundredths
Shown(n) == [negative |-> FALSE, whole |-> n \div 100, cents |-> n % 100]

PlantsOf(data) == IF data.plants.type = "array" THEN data.plants.items ELSE << >>

\* every plant of the payload is critical or in order
OnlyCriticalDefects(data) ==
  /\ data.plants.type = "array"
  /\ \A i \in 1..Len(PlantsOf(data)) :
       \/ PlantsOf(data)[i].status_icon = "critical"
       \/ PlantsOf(data)[i] = SamplePlant

\* C32: after a successful cycle the row of every plant whose status_icon is
\* the critical marker shows '--' in all five numeric columns, whatever the
\* plant's numeric fields contain; and the table code throws on no payload
\* whose only defects are in critical plants.
C32_CriticalRowsArePlaceholders ==
  /\ ShowsLastTable =>
       /\ Len(display.tableRows) = Len(PlantsOf(LastData))
       /\ \A i \in 1..Len(PlantsOf(LastData)) :
            PlantsOf(LastData)[i].status_icon = "critical" =>
              /\ Len(display.tableRows[i]) = 5
              /\ \A col \in 1..5 : display.tableRows[i][col] = [text |-> "--"]
  /\ \A data \in SnapshotPayloads :
       (~data.error /\ OnlyCriticalDefects(data)) => ~TableThrows(data)

\* a cycle has succeeded on a payload whose first plant is critical and has
\* none of its numeric fields: its row shows five placeholders and the row
\* of the plant after it shows numbers
C32_Witness ==
  /\ ShowsLastTable
  /\ lastOutcome = "success"
  /\ LastData.plants = Array(<< MissingCritical, SamplePlant >>)
  /\ \A col \in 1..5 : display.tableRows[1][col] = [text |-> "--"]
  /\ display.tableRows[2][2] = NumberText(150)

\* C33: within one cycle the widgets are written in the order KPI values,
\* alerts, table rows, chart: whenever a cycle has written a widget it has
\* written every widget of an earlier stage, also when the rendering stops
\* half-way on an exception.
C33_RenderingOrder ==
  [][/\ display'.chart # display.chart => display'.table = display'.chart
     /\ display'.table # display.table => display'.alerts = display'.table
     /\ display'.alerts # display.alerts => display'.kpi = display'.alerts]_vars

\* the second cycle has stopped in the alerts code: KPI values and alerts
\* are its own, table and chart are still those of the first cycle
C33_Witness ==
  /\ cyclesCompleted = 2
  /\ lastOutcome = "malformed"
  /\ display.kpi = 2 /\ display.alerts = 2
  /\ display.table = 1 /\ display.chart = 1

(* ---------------------------------------------------------------------- *)
(* Properties of the connection state                                     *)
(* ---------------------------------------------------------------------- *)
\* C34: connectionStatus is 'unknown' only before the first cycle has come
\* to its outcome: once a cycle has finished, with whatever outcome, the
\* status is 'connected' or 'disconnected', and a status that has left
\* 'unknown' never returns to it.
C34_UnknownOnlyAtFirst ==
  [][/\ cyclesCompleted' >= 1 =>
          connectionStatus' \in {"connected", "disconnected"}
     /\ connectionStatus # "unknown" => connectionStatus' # "unknown"]_vars

\* the first cycle has ended on a payload with an `error` field, and the
\* status has left 'unknown'
C34_Witness ==
  /\ cyclesCompleted = 1
  /\ lastOutcome = "apperror"
  /\ connectionStatus = "disconnected"

\* the three fields of the connection state agree
ConsistentConn ==
  /\ connectionStatus = "unknown" =>
       failedFetchCount = 0 /\ lastSuccessfulConnection = None
  /\ connectionStatus = "connected" =>
       failedFetchCount = 0 /\ lastSuccessfulConnection # None
  /\ connectionStatus = "disconnected" => failedFetchCount >= 1

\* C38: in every reachable state 'unknown' implies failedFetchCount = 0 and
\* lastSuccessfulConnection unset, 'connected' implies failedFetchCount = 0
\* and lastSuccessfulConnection set, 'disconnected' implies
\* failedFetchCount >= 1; and lastSuccessfulConnection, once set, is never
\* unset and never moves backwards.
C38_ConnectionFieldsConsistent ==
  [][/\ ConsistentConn /\ ConsistentConn'
     /\ lastSuccessfulConnection # None =>
          /\ lastSuccessfulConnection' # None
          /\ lastSuccessfulConnection'[1] >= lastSuccessfulConnection[1]]_vars

\* after a success at an earlier time a cycle has failed: the status is
\* 'disconnected' with a count of 1 and the time of the success is kept
C38_Witness ==
  /\ connectionStatus = "disconnected"
  /\ failedFetchCount = 1
  /\ lastSuccessfulConnection # None
  /\ lastSuccessfulConnection[1] < now
  /\ prevStreak = 0

(* ---------------------------------------------------------------------- *)
(* The chart on payloads of any shape                                     *)
(* ---------------------------------------------------------------------- *)
\* C37: for every chart payload that passes the four-array guard, whatever
\* the lengths of the arrays and whatever k (x_axis absent and k > 289
\* included), the four series handed to the chart all have the length of
\* the 289-label axis.
C37_SeriesMatchAxis ==
  (chartInput # None /\ FourArrays(LastChart)) =>
    \A s \in 1..4 : Len(energyChart.datasets[s]) = 289

(* ---------------------------------------------------------------------- *)
(* The controller among fetch cycles and user events                      *)
(* ---------------------------------------------------------------------- *)
\* C36: at any time at most one auto-scroll animation-frame callback is
\* pending, under every interleaving of startAutoScroll, stopAutoScroll,
\* edge-pause timeouts, user events and fetch cycles.
C36_AtMostOneFrame == frames <= 1

\* this step runs a timeout or a frame callback: a restart timeout of a
\* fetch cycle, a quiet timeout, an edge-pause timeout or a frame
TimerRuns ==
  \/ \E tm \in restartTimers : RestartTimerFire(tm)
  \/ \E tm \in startTimers : StartTimerFire(tm)
  \/ \E h \in PendingQuiets : QuietTimerFire(h)
  \/ ControllerRuns

\* C40: while the pointer is over the table (after mouseenter and before
\* the next mouseleave) no quiet timeout, edge-pause timeout, frame or
\* restart timeout of a fetch cycle moves the scroll offset, resets it to
\* the top or starts the controller.
C40_HoverHoldsTable ==
  [][(hovering /\ TimerRuns) =>
       /\ scrollTop' = scrollTop
       /\ isScrolling' => isScrolling]_vars

\* C39: a cycle that ends in failure schedules no startAutoScroll and no
\* offset reset, and after it, with the controller stopped, no frame and no
\* edge-pause timeout moves the table or starts the controller: the table
\* stays still until a successful cycle or a user event restarts it.
C39_FailureLeavesTableStill ==
  [][/\ Finishes(Failures) =>
          restartTimers' = restartTimers /\ startTimers' = startTimers
     /\ (lastOutcome \in Failures /\ ~isScrolling /\ ControllerRuns) =>
          scrollTop' = scrollTop /\ ~isScrolling']_vars

(* ---------------------------------------------------------------------- *)
(* The connection state among all events of the page (EventSpec)          *)
(* ---------------------------------------------------------------------- *)
\* this step is the start of a fetch, a countdown tick, a callback of the
\* controller or of a restart or quiet timeout, a user event or the passage
\* of time
NoFetchOutcome ==
  \/ PollTimerFire
  \/ \E tm \in countdownTimers : CountdownTick(tm)
  \/ TimerRuns
  \/ UserPauses
  \/ MouseLeave
  \/ TouchEnd
  \/ now' # now

\* C35: the connection state changes only on a fetch outcome: a step that
\* changes connectionStatus, failedFetchCount or lastSuccessfulConnection
\* finishes a cycle, and countdown ticks (the restart at zero included),
\* frames, edge-pause timeouts, restart timeouts and the user's hover, wheel
\* and touch events leave the three unchanged.
C35_OnlyFetchOutcomesChangeConnection ==
  [][/\ connVars' # connVars => Finishes(Failures \cup {"success"})
     /\ NoFetchOutcome => connVars' = connVars]_vars

\* five minutes after the only success the countdown has run out and a tick
\* has restarted it, the pointer is over the table, which frames have
\* moved: the connection state is still that of the success at time 0
C35_Witness ==
  /\ now = UPDATE_INTERVAL_MS
  /\ nextHandle = 3
  /\ hovering
  /\ scrollTop > 0
  /\ cyclesCompleted = 1
  /\ connectionStatus = "connected"
  /\ failedFetchCount = 0
  /\ lastSuccessfulConnection = Some(0)

============================================================================
